---- MODULE Spec2Model ----
(***************************************************************************)
(* A model of the voice input agent (wganko/whispervoice_app):             *)
(*   - AudioAccumulator        (src/src/stt/whisper_stream.py)             *)
(*   - RecordingToggle         (src/src/hotkey/global_hotkey.py)           *)
(*   - SileroVAD               (src/src/vad/silero_vad.py)                 *)
(*   - VoiceInputAgent and WasapiCapture, as three threads                 *)
(*                             (src/src/main.py, src/src/audio/...)        *)
(*   - SimpleEnergyVAD         (src/src/vad/silero_vad.py)                 *)
(*   - GlobalHotkeyManager     (src/src/hotkey/global_hotkey.py)           *)
(*   - LatencyTimer, LatencyLogger (src/src/metrics/latency.py)            *)
(*   - TextInjector            (src/src/input/send_input.py)               *)
(*   - WhisperStreamProcessor  (src/src/stt/whisper_stream.py)             *)
(* Each component has a specification of its own (SpecAcc, SpecToggle,     *)
(* SpecVAD, SpecVariants, SpecFrames, SpecHotkey, SpecTimer, SpecLogger,   *)
(* SpecPercentiles, SpecInject, SpecWhisper); Spec is the orchestrator     *)
(* with its three execution contexts.                                      *)
(***************************************************************************)
EXTENDS Integers, Sequences, FiniteSets, TLC

VARIABLES
    \* AudioAccumulator
    buffer,            \* self._buffer, a sequence of bytes
    is_accumulating,   \* self._is_accumulating
    max_bytes,         \* int(max_duration_s * sample_rate * 2)
    acc_call,          \* the last call on the accumulator, with its pre-state
    since,             \* history: speech frames passed since the buffer was last emptied
    prev_emit          \* history: the call before acc_call was a silence add that emitted

accVars == <<buffer, is_accumulating, max_bytes, acc_call, since, prev_emit>>

VARIABLES
    \* RecordingToggle
    is_recording,      \* self._is_recording
    last_toggle_time,  \* self._last_toggle_time, ms
    on_start_set,      \* self.on_start is not None
    on_stop_set,       \* self.on_stop is not None
    now,               \* time.time() * 1000
    tog_call,          \* the last call on the toggle, with its pre-state
    last_accept        \* history: the last toggle() that passed the debounce check

togVars == <<is_recording, last_toggle_time, on_start_set, on_stop_set, now, tog_call,
             last_accept>>

VARIABLES
    \* SileroVAD
    vad_state,         \* self._state
    speech_frames,     \* self._speech_frames
    silence_frames,    \* self._silence_frames
    vad_buffer,        \* len(self._buffer), in samples
    vad_call,          \* the last call on the detector and what it returned
    vad_hist           \* history: the classification of every window scored since reset

vadVars == <<vad_state, speech_frames, silence_frames, vad_buffer, vad_call, vad_hist>>

VARIABLES
    \* VoiceInputAgent, WasapiCapture and LatencyLogger, in three execution contexts
    pc,                \* where each context is in its code
    utter,             \* audio_data / complete_audio, the local of each context
    cb,                \* the frame the capture callback is handling and the VAD's answer
    hk_saw,            \* self._is_recording as toggle() read it
    running,           \* VoiceInputAgent._running
    listener,          \* GlobalHotkeyManager._running: the listener dispatches key presses
    cap_recording,     \* WasapiCapture._is_recording
    cap_stream,        \* WasapiCapture._stream is not None (opened and started)
    cap_lock,          \* the holder of WasapiCapture._lock
    measurements,      \* LatencyLogger._measurements
    frame_no,          \* the frames the audio device has produced
    model_ok,          \* torch.hub.load of the neural model succeeds in this environment
    vad_variant,       \* the class of VoiceInputAgent._vad
    cap_raised,        \* an exception has left _on_audio_chunk into the audio subsystem
    stt_failed,        \* self._stt.transcribe has raised
    stt_escaped,       \* the contexts in which that exception left _process_audio
    lost_speech        \* a speech frame of the open stream was never passed to the callback

\* what _init_components decides once
loadVars == <<model_ok, vad_variant>>

sttVars == <<stt_failed, stt_escaped>>

pipeVars == <<pc, utter, cb, hk_saw, running, listener, cap_recording, cap_stream, cap_lock,
              measurements, frame_no, loadVars, cap_raised, sttVars, lost_speech>>

VARIABLES
    \* SimpleEnergyVAD
    e_state,           \* self._state
    speech_samples,    \* self._speech_samples
    silence_samples,   \* self._silence_samples
    e_call             \* the last call and what it returned

energyVars == <<e_state, speech_samples, silence_samples, e_call>>

VARIABLES
    \* GlobalHotkeyManager
    hotkeys,           \* self._hotkeys, in insertion order
    pressed_modifiers, \* self._pressed_modifiers
    mgr_running,       \* self._running: the listener is alive
    press_call,        \* the last _on_press and what it did
    had_failure        \* a callback has raised in an earlier _on_press

mgrVars == <<hotkeys, pressed_modifiers, mgr_running, press_call, had_failure>>

VARIABLES
    \* LatencyTimer and LatencyLogger
    timestamps,        \* LatencyTimer._timestamps
    timer_clock,       \* time.perf_counter() * 1000
    timer_call,        \* the last get_measurement, the marks it saw and what it returned
    max_history,       \* LatencyLogger.max_history
    logged,            \* the measurements passed to log() since construction or clear()
    logger_call        \* the last get_statistics, check_target or get_recent and its result

latVars == <<timestamps, timer_clock, timer_call, max_history, logged, logger_call>>

VARIABLES
    \* TextInjector
    inject_call        \* the last inject(text), what SendInput did and what was returned

injVars == <<inject_call>>

VARIABLES
    \* WhisperStreamProcessor
    stt_state,         \* self._state
    stt_model,         \* self._model is not None
    stt_call           \* the last preload() or transcribe(), its inputs and how it ended

whisperVars == <<stt_state, stt_model, stt_call>>

vars == <<accVars, togVars, vadVars, pipeVars, energyVars, mgrVars, latVars, injVars, whisperVars>>

\* the state of the components, and the history the component specifications keep
accCore == <<buffer, is_accumulating>>

vadCore == <<vad_state, speech_frames, silence_frames, vad_buffer>>

togCore == <<is_recording, last_toggle_time>>

histVars == <<max_bytes, acc_call, since, prev_emit, on_start_set, on_stop_set, tog_call,
              last_accept, vad_call, vad_hist, energyVars, mgrVars, latVars, injVars, whisperVars>>

(***************************************************************************)
(* Optional[bytes]                                                         *)
(***************************************************************************)
None == [some |-> FALSE, val |-> <<>>]

Some(v) == [some |-> TRUE, val |-> v]

(***************************************************************************)
(* Bounds                                                                  *)
(***************************************************************************)
\* the largest configured max_bytes
MaxCap == 5

\* the longest frame handed to add(), in bytes
MaxFrameLen == 2

\* byte values
MaxByte == 1

Bytes == 0..MaxByte

RECURSIVE SeqsUpTo(_, _)
SeqsUpTo(S, n) ==
    IF n = 0 THEN {<<>>}
    ELSE LET shorter == SeqsUpTo(S, n - 1)
         IN  shorter \cup {Append(s, x) : s \in {t \in shorter : Len(t) = n - 1}, x \in S}

\* the frames add() is called with: any bytes object, the empty one included
Frames == SeqsUpTo(Bytes, MaxFrameLen)

(***************************************************************************)
(* AudioAccumulator                                                        *)
(***************************************************************************)
Acc(b, f, r) == [buffer |-> b, flag |-> f, ret |-> r]

\* add() with `if is_speech or True`: the frame is appended whatever the VAD said
AccAdd_AppendsSilence(buf, flag, audio_chunk, is_speech, maxb) ==
    LET b == buf \o audio_chunk
    IN  IF Len(b) >= maxb THEN Acc(<<>>, FALSE, Some(b)) ELSE Acc(b, TRUE, None)

\* add() with `>` for `>=` in the maximum length check
AccAdd_StrictCap(buf, flag, audio_chunk, is_speech, maxb) ==
    IF is_speech
    THEN LET b == buf \o audio_chunk
         IN  IF Len(b) > maxb THEN Acc(<<>>, FALSE, Some(b)) ELSE Acc(b, TRUE, None)
    ELSE IF flag /\ Len(buf) > 0
         THEN Acc(<<>>, FALSE, Some(buf))
         ELSE Acc(buf, flag, None)

\* add() that forgets to reset the flag when silence ends an utterance
AccAdd_KeepsFlag(buf, flag, audio_chunk, is_speech, maxb) ==
    IF is_speech
    THEN LET b == buf \o audio_chunk
         IN  IF Len(b) >= maxb THEN Acc(<<>>, FALSE, Some(b)) ELSE Acc(b, TRUE, None)
    ELSE IF flag /\ Len(buf) > 0
         THEN Acc(<<>>, TRUE, Some(buf))
         ELSE Acc(buf, flag, None)

\* add() without the maximum length check
AccAdd_NoCap(buf, flag, audio_chunk, is_speech, maxb) ==
    IF is_speech
    THEN Acc(buf \o audio_chunk, TRUE, None)
    ELSE IF flag /\ Len(buf) > 0
         THEN Acc(<<>>, FALSE, Some(buf))
         ELSE Acc(buf, flag, None)

AccAdd(buf, flag, audio_chunk, is_speech, maxb) ==
    IF is_speech
    THEN \* self._buffer.extend(audio_chunk); self._is_accumulating = True
         LET b == buf \o audio_chunk
         IN  IF Len(b) >= maxb
             THEN Acc(<<>>, FALSE, Some(b))
             ELSE Acc(b, TRUE, None)
    ELSE IF flag /\ Len(buf) > 0
         THEN Acc(<<>>, FALSE, Some(buf))
         ELSE Acc(buf, flag, None)

\* flush() without the emptiness test
AccFlush_Unconditional(buf, flag) == Acc(<<>>, FALSE, Some(buf))

AccFlush(buf, flag) ==
    IF Len(buf) > 0
    THEN Acc(<<>>, FALSE, Some(buf))
    ELSE Acc(buf, flag, None)

AccClear(buf, flag) == Acc(<<>>, FALSE, None)

\* the record of a call: what was called, with what, on which state, and what it returned
AccCall(op, chunk, speech, r) ==
    [op |-> op, chunk |-> chunk, is_speech |-> speech,
     pre_buffer |-> buffer, pre_flag |-> is_accumulating, ret |-> r.ret]

\* the buffer was emptied by the last call: it returned an utterance, or it was clear()
Emptied == acc_call.ret.some \/ acc_call.op = "clear"

SinceBase == IF Emptied THEN <<>> ELSE since

AccInit ==
    /\ buffer = <<>>
    /\ is_accumulating = FALSE
    /\ max_bytes \in 1..MaxCap
    /\ acc_call = [op |-> "init", chunk |-> <<>>, is_speech |-> FALSE,
                   pre_buffer |-> <<>>, pre_flag |-> FALSE, ret |-> None]
    /\ since = <<>>
    /\ prev_emit = FALSE

AccStep(op, chunk, speech, r) ==
    /\ buffer' = r.buffer
    /\ is_accumulating' = r.flag
    /\ acc_call' = AccCall(op, chunk, speech, r)
    /\ since' = IF op = "add" /\ speech THEN SinceBase \o chunk ELSE SinceBase
    /\ prev_emit' = (acc_call.op = "add" /\ ~acc_call.is_speech /\ acc_call.ret.some)
    /\ UNCHANGED max_bytes

Add(audio_chunk, is_speech) ==
    AccStep("add", audio_chunk, is_speech,
            AccAdd(buffer, is_accumulating, audio_chunk, is_speech, max_bytes))

Flush == AccStep("flush", <<>>, FALSE, AccFlush(buffer, is_accumulating))

Clear == AccStep("clear", <<>>, FALSE, AccClear(buffer, is_accumulating))

\* the accumulator as constructed, with the default of a scaled max_duration_s
AccRest ==
    /\ buffer = <<>>
    /\ is_accumulating = FALSE
    /\ max_bytes = MaxCap
    /\ acc_call = [op |-> "init", chunk |-> <<>>, is_speech |-> FALSE,
                   pre_buffer |-> <<>>, pre_flag |-> FALSE, ret |-> None]
    /\ since = <<>>
    /\ prev_emit = FALSE

(***************************************************************************)
(* RecordingToggle                                                         *)
(***************************************************************************)
\* debounce_ms: int = 500
debounce_ms == 500

\* the clock advances by half a debounce window, or by one ms less
TimeStep == debounce_ms \div 2

TickSteps == {TimeStep - 1, TimeStep}

\* the wall clock (ms since the epoch) at construction: far beyond one debounce window
StartTime == 4 * debounce_ms

\* the clock advances at most this many half windows
MaxTicks == 6

MaxTime == StartTime + MaxTicks * TimeStep

\* what a callback may do when called: return (FALSE) or raise (TRUE)
Raises(is_set) == IF is_set THEN BOOLEAN ELSE {FALSE}

Tog(rec, last, ret, accepted, fired, raised, propagated) ==
    [is_recording |-> rec, last |-> last, ret |-> ret, accepted |-> accepted,
     fired |-> fired, raised |-> raised, propagated |-> propagated]

\* _check_debounce(): TRUE when the window has passed
CheckDebounce(last, current_time) == ~(current_time - last < debounce_ms)

\* toggle() that never looks at the clock
TogToggle_NoDebounce(rec, last, current_time, has_start, has_stop, start_raises, stop_raises) ==
    IF rec
    THEN Tog(FALSE, current_time, FALSE, TRUE,
             IF has_stop THEN <<"on_stop">> ELSE <<>>, has_stop /\ stop_raises, FALSE)
    ELSE IF has_start
         THEN Tog(~start_raises, current_time, ~start_raises, TRUE, <<"on_start">>,
                  start_raises, FALSE)
         ELSE Tog(TRUE, current_time, TRUE, TRUE, <<>>, FALSE, FALSE)

\* toggle() without the rollback in the except branch of on_start
TogToggle_NoRollback(rec, last, current_time, has_start, has_stop, start_raises, stop_raises) ==
    IF ~CheckDebounce(last, current_time)
    THEN Tog(rec, last, rec, FALSE, <<>>, FALSE, FALSE)
    ELSE IF rec
         THEN Tog(FALSE, current_time, FALSE, TRUE,
                  IF has_stop THEN <<"on_stop">> ELSE <<>>, has_stop /\ stop_raises, FALSE)
         ELSE Tog(TRUE, current_time, TRUE, TRUE,
                  IF has_start THEN <<"on_start">> ELSE <<>>, has_start /\ start_raises, FALSE)

\* toggle() whose _check_debounce never stores the time of the accepted toggle
TogToggle_NoStamp(rec, last, current_time, has_start, has_stop, start_raises, stop_raises) ==
    IF ~CheckDebounce(last, current_time)
    THEN Tog(rec, last, rec, FALSE, <<>>, FALSE, FALSE)
    ELSE IF rec
         THEN Tog(FALSE, last, FALSE, TRUE,
                  IF has_stop THEN <<"on_stop">> ELSE <<>>, has_stop /\ stop_raises, FALSE)
         ELSE IF has_start
              THEN Tog(~start_raises, last, ~start_raises, TRUE, <<"on_start">>,
                       start_raises, FALSE)
              ELSE Tog(TRUE, last, TRUE, TRUE, <<>>, FALSE, FALSE)

\* toggle() whose _check_debounce stores the time of a rejected call as well
TogToggle_StampsRejected(rec, last, current_time, has_start, has_stop, start_raises, stop_raises) ==
    IF ~CheckDebounce(last, current_time)
    THEN Tog(rec, current_time, rec, FALSE, <<>>, FALSE, FALSE)
    ELSE IF rec
         THEN Tog(FALSE, current_time, FALSE, TRUE,
                  IF has_stop THEN <<"on_stop">> ELSE <<>>, has_stop /\ stop_raises, FALSE)
         ELSE IF has_start
              THEN Tog(~start_raises, current_time, ~start_raises, TRUE, <<"on_start">>,
                       start_raises, FALSE)
              ELSE Tog(TRUE, current_time, TRUE, TRUE, <<>>, FALSE, FALSE)

TogToggle(rec, last, current_time, has_start, has_stop, start_raises, stop_raises) ==
    IF ~CheckDebounce(last, current_time)
    THEN \* return self._is_recording
         Tog(rec, last, rec, FALSE, <<>>, FALSE, FALSE)
    ELSE \* self._last_toggle_time = current_time
         IF rec
         THEN \* self._is_recording = False; on_stop() inside try/except
              Tog(FALSE, current_time, FALSE, TRUE,
                  IF has_stop THEN <<"on_stop">> ELSE <<>>, has_stop /\ stop_raises, FALSE)
         ELSE \* self._is_recording = True; on_start() inside try/except, rolled back
              IF has_start
              THEN Tog(~start_raises, current_time, ~start_raises, TRUE, <<"on_start">>,
                       start_raises, FALSE)
              ELSE Tog(TRUE, current_time, TRUE, TRUE, <<>>, FALSE, FALSE)

\* start() that honours the debounce window of toggle()
TogStart_Debounced(rec, last, has_start, start_raises) ==
    IF ~rec /\ CheckDebounce(last, now)
    THEN Tog(TRUE, last, FALSE, FALSE, IF has_start THEN <<"on_start">> ELSE <<>>,
             has_start /\ start_raises, has_start /\ start_raises)
    ELSE Tog(rec, last, FALSE, FALSE, <<>>, FALSE, FALSE)

\* start(): no debounce, no try/except; returns nothing (ret is FALSE)
TogStart(rec, last, has_start, start_raises) ==
    IF ~rec
    THEN Tog(TRUE, last, FALSE, FALSE, IF has_start THEN <<"on_start">> ELSE <<>>,
             has_start /\ start_raises, has_start /\ start_raises)
    ELSE Tog(rec, last, FALSE, FALSE, <<>>, FALSE, FALSE)

\* stop(): no debounce, no try/except; returns nothing (ret is FALSE)
TogStop(rec, last, has_stop, stop_raises) ==
    IF rec
    THEN Tog(FALSE, last, FALSE, FALSE, IF has_stop THEN <<"on_stop">> ELSE <<>>,
             has_stop /\ stop_raises, has_stop /\ stop_raises)
    ELSE Tog(rec, last, FALSE, FALSE, <<>>, FALSE, FALSE)

NoAccept == [at |-> -1, ret |-> FALSE, direct |-> FALSE]

\* the calls since construction are counted up to this many
MaxCalls == 3

Min(a, b) == IF a < b THEN a ELSE b

\* the record of a call: seq is its place among the calls since construction
TogCall(op, r) ==
    [op |-> op, at |-> now, pre_rec |-> is_recording, pre_last |-> last_toggle_time,
     pre_accept |-> last_accept, ret |-> r.ret, accepted |-> r.accepted,
     fired |-> r.fired, raised |-> r.raised, propagated |-> r.propagated,
     seq |-> Min(tog_call.seq + 1, MaxCalls), pre_op |-> tog_call.op,
     pre_rejected |-> (tog_call.op = "toggle" /\ ~tog_call.accepted)]

TogFixed ==
    /\ is_recording = FALSE
    /\ last_toggle_time = 0
    /\ now = StartTime
    /\ tog_call = [op |-> "init", at |-> StartTime, pre_rec |-> FALSE, pre_last |-> 0,
                   pre_accept |-> NoAccept, ret |-> FALSE, accepted |-> FALSE,
                   fired |-> <<>>, raised |-> FALSE, propagated |-> FALSE,
                   seq |-> 0, pre_op |-> "init", pre_rejected |-> FALSE]
    /\ last_accept = NoAccept

TogInit ==
    /\ TogFixed
    /\ on_start_set \in BOOLEAN
    /\ on_stop_set \in BOOLEAN

\* the toggle as the agent constructs it: both callbacks set
TogRest ==
    /\ TogFixed
    /\ on_start_set = TRUE
    /\ on_stop_set = TRUE

TogStep(op, r) ==
    /\ is_recording' = r.is_recording
    /\ last_toggle_time' = r.last
    /\ tog_call' = TogCall(op, r)
    /\ last_accept' =
         IF op = "toggle" /\ r.accepted
         THEN [at |-> now, ret |-> r.ret, direct |-> TRUE]
         ELSE IF op = "toggle" THEN last_accept
         ELSE [last_accept EXCEPT !.direct = FALSE]
    /\ UNCHANGED <<on_start_set, on_stop_set, now>>

Tick(d) ==
    /\ now + d <= MaxTime
    /\ now' = now + d
    /\ UNCHANGED <<is_recording, last_toggle_time, on_start_set, on_stop_set, tog_call,
                   last_accept>>

Toggle(start_raises, stop_raises) ==
    TogStep("toggle", TogToggle(is_recording, last_toggle_time, now, on_start_set,
                                on_stop_set, start_raises, stop_raises))

Start(start_raises) ==
    TogStep("start", TogStart(is_recording, last_toggle_time, on_start_set, start_raises))

Stop(stop_raises) ==
    TogStep("stop", TogStop(is_recording, last_toggle_time, on_stop_set, stop_raises))


(***************************************************************************)
(* SileroVAD                                                               *)
(***************************************************************************)
\* SAMPLE_RATE = 16000
SAMPLE_RATE == 16000

\* CHUNK_SAMPLES = 512
CHUNK_SAMPLES == 512

\* threshold: float = 0.5, in tenths
threshold == 5

\* min_speech_duration_ms=150, as the agent constructs the detector
min_speech_duration_ms == 150

\* min_silence_duration_ms=50, as the agent constructs the detector
min_silence_duration_ms == 50

\* the windows scored between two resets
MaxWindows == 8

\* the model's confidence for a window, in tenths: below, at and above the threshold
Confidences == {threshold - 1, threshold, threshold + 1}

\* the lengths of the frames passed in, in samples: half a window, one, two (CHUNK_SIZE)
FrameSamples == {CHUNK_SAMPLES \div 2, CHUNK_SAMPLES, 2 * CHUNK_SAMPLES}

Vad(st, sf, nf) == [state |-> st, speech_frames |-> sf, silence_frames |-> nf]

VADResult(is_speech, confidence, st) ==
    [is_speech |-> is_speech, confidence |-> confidence, state |-> st]

\* frames * frame_duration_ms >= floor_ms, with frame_duration_ms = CHUNK_SAMPLES / SAMPLE_RATE * 1000
DurationReached(frames, floor_ms) == frames * CHUNK_SAMPLES * 1000 >= floor_ms * SAMPLE_RATE

\* _process_chunk() that does not zero the speech run on a silence window
VadProcessChunk_KeepsRun(v, confidence) ==
    LET is_speech_frame == confidence >= threshold
        sf == IF is_speech_frame THEN v.speech_frames + 1 ELSE v.speech_frames
        nf == IF is_speech_frame THEN 0 ELSE v.silence_frames + 1
        st == IF v.state = "silence"
              THEN IF DurationReached(sf, min_speech_duration_ms) THEN "speech" ELSE "silence"
              ELSE IF DurationReached(nf, min_silence_duration_ms) THEN "silence" ELSE "speech"
    IN  [vad |-> Vad(st, sf, nf), result |-> VADResult(st = "speech", confidence, st)]

VadProcessChunk(v, confidence) ==
    LET is_speech_frame == confidence >= threshold
        sf == IF is_speech_frame THEN v.speech_frames + 1 ELSE 0
        nf == IF is_speech_frame THEN 0 ELSE v.silence_frames + 1
        st == IF v.state = "silence"
              THEN IF DurationReached(sf, min_speech_duration_ms) THEN "speech" ELSE "silence"
              ELSE IF DurationReached(nf, min_silence_duration_ms) THEN "silence" ELSE "speech"
    IN  [vad |-> Vad(st, sf, nf), result |-> VADResult(st = "speech", confidence, st)]

\* the while loop of process(): one window per confidence, results in order
RECURSIVE VadWindows(_, _, _)
VadWindows(v, confs, results) ==
    IF confs = <<>>
    THEN [vad |-> v, results |-> results]
    ELSE LET r == VadProcessChunk(v, Head(confs))
         IN  VadWindows(r.vad, Tail(confs), Append(results, r.result))

\* process(audio_chunk): n samples arrive, confs are the model's scores of the full windows
VadProcess(v, buf, n, confs) ==
    LET r == VadWindows(v, confs, <<>>)
    IN  [vad |-> r.vad, buffer |-> (buf + n) % CHUNK_SAMPLES, results |-> r.results]

\* is_speech() that answers with the class of the last window scored: the mutant of
\* VadIsSpeech that bypasses the debounced state
VadIsSpeech_RawClass(v, buf, n, confs) ==
    LET r == VadWindows(v, confs, <<>>)
    IN  [vad |-> r.vad, buffer |-> (buf + n) % CHUNK_SAMPLES, results |-> r.results,
         ret |-> IF confs = <<>>
                 THEN r.vad.state = "speech"
                 ELSE confs[Len(confs)] >= threshold]

\* is_speech(audio_chunk): the last decision, or the current state when there is none
VadIsSpeech(v, buf, n, confs) ==
    LET r == VadProcess(v, buf, n, confs)
    IN  [vad |-> r.vad, buffer |-> r.buffer, results |-> r.results,
         ret |-> IF r.results = <<>>
                 THEN r.vad.state = "speech"
                 ELSE r.results[Len(r.results)].is_speech]

\* the full windows that n more samples complete
WindowsIn(buf, n) == (buf + n) \div CHUNK_SAMPLES

ConfSeqs(k) == [1..k -> Confidences]

Classified(confs) == [i \in 1..Len(confs) |-> confs[i] >= threshold]

VadNow == Vad(vad_state, speech_frames, silence_frames)

\* self._buffer as the samples it holds, numbered in arrival order since the last
\* reset: those numbered from .. to - 1
Held(from, to) == [from |-> from, to |-> to]

RECURSIVE TakeWindows_KeepsFullWindow(_, _)
\* the while loop with len(self._buffer) > CHUNK_SAMPLES as its condition
TakeWindows_KeepsFullWindow(held, starts) ==
    IF held.to - held.from > CHUNK_SAMPLES
    THEN TakeWindows_KeepsFullWindow(Held(held.from + CHUNK_SAMPLES, held.to),
                                     Append(starts, held.from))
    ELSE [held |-> held, windows |-> starts]

RECURSIVE TakeWindows(_, _)
\* while len(self._buffer) >= CHUNK_SAMPLES: the first CHUNK_SAMPLES samples are
\* cut off the front and scored; starts are the first samples of the windows cut
TakeWindows(held, starts) ==
    IF held.to - held.from >= CHUNK_SAMPLES
    THEN TakeWindows(Held(held.from + CHUNK_SAMPLES, held.to), Append(starts, held.from))
    ELSE [held |-> held, windows |-> starts]

\* np.concatenate([self._buffer, samples]) with n samples, then the while loop
Windowing(held, n) == TakeWindows(Held(held.from, held.to + n), <<>>)

\* the detector with its remainder buffer
Detector(vad, remainder) == [vad |-> vad, buffer |-> remainder]

\* what __init__ leaves: Silence, both counters zero, no buffered samples
FreshDetector == Detector(Vad("silence", 0, 0), 0)

VadInit ==
    /\ vad_state = "silence"
    /\ speech_frames = 0
    /\ silence_frames = 0
    /\ vad_buffer = 0
    /\ vad_call = [op |-> "init", results |-> <<>>, ret |-> FALSE, pre |-> FreshDetector,
                   avail |-> 0, held |-> Held(0, 0), windows |-> <<>>]
    /\ vad_hist = <<>>

\* the call record of process() and is_speech() keeps, beside the results, the
\* samples at hand in the call (avail), those left in the buffer (held) and the
\* first samples of the windows scored (windows)
VadStep(op, r, ret, confs, n) ==
    /\ vad_state' = r.vad.state
    /\ speech_frames' = r.vad.speech_frames
    /\ silence_frames' = r.vad.silence_frames
    /\ vad_buffer' = r.buffer
    /\ LET w == Windowing(vad_call.held, n)
       IN  vad_call' = [op |-> op, results |-> r.results, ret |-> ret, pre |-> FreshDetector,
                        avail |-> vad_call.held.to + n - vad_call.held.from,
                        held |-> w.held, windows |-> w.windows]
    /\ vad_hist' = vad_hist \o Classified(confs)

\* reset() that leaves the buffered samples in place
SileroReset_KeepsBuffer(d) == Detector(Vad("silence", 0, 0), d.buffer)

\* reset(): every field is assigned a constant, whatever the detector d held
SileroReset(d) == Detector(Vad("silence", 0, 0), 0)

\* the call record of a reset() keeps the detector it was called on in pre
VadReset ==
    LET d == Detector(VadNow, vad_buffer)
        r == SileroReset(d)
    IN  /\ vad_state' = r.vad.state
        /\ speech_frames' = r.vad.speech_frames
        /\ silence_frames' = r.vad.silence_frames
        /\ vad_buffer' = r.buffer
        /\ vad_call' = [op |-> "reset", results |-> <<>>, ret |-> FALSE, pre |-> d,
                        avail |-> 0, held |-> Held(0, 0), windows |-> <<>>]
        /\ vad_hist' = <<>>

\* process() returns the list of results; ret is not used
Process(n, confs) ==
    /\ Len(vad_hist) + Len(confs) <= MaxWindows
    /\ VadStep("process", VadProcess(VadNow, vad_buffer, n, confs), FALSE, confs, n)

IsSpeech(n, confs) ==
    /\ Len(vad_hist) + Len(confs) <= MaxWindows
    /\ LET r == VadIsSpeech(VadNow, vad_buffer, n, confs)
       IN  VadStep("is_speech", r, r.ret, confs, n)


(***************************************************************************)
(* SimpleEnergyVAD, and the two variants driven by the same frames         *)
(***************************************************************************)
\* threshold_db: float = -40.0
threshold_db == -40

\* the level of a frame in dB: below, at and above the threshold
Levels == {threshold_db - 1, threshold_db, threshold_db + 1}

Energy(st, sp, sl) == [state |-> st, speech_samples |-> sp, silence_samples |-> sl]

\* (samples / self.sample_rate) * 1000 >= floor_ms
SamplesReached(samples, floor_ms) == samples * 1000 >= floor_ms * SAMPLE_RATE

\* confidence = min(1.0, max(0.0, (db + 60) / 60)), in sixtieths
EnergyConfidence(db) == IF db + 60 < 0 THEN 0 ELSE IF db + 60 > 60 THEN 60 ELSE db + 60

\* process() that leaves the speech state at the first silent chunk: the mutant of
\* EnergyProcess without the floor on the silence
EnergyProcess_NoSilenceFloor(e, chunk_samples, db) ==
    LET is_speech_frame == db >= threshold_db
        sp == IF is_speech_frame THEN e.speech_samples + chunk_samples ELSE 0
        sl == IF is_speech_frame THEN 0 ELSE e.silence_samples + chunk_samples
        st == IF e.state = "silence"
              THEN IF SamplesReached(sp, min_speech_duration_ms) THEN "speech" ELSE "silence"
              ELSE IF is_speech_frame THEN "speech" ELSE "silence"
    IN  [energy |-> Energy(st, sp, sl),
         result |-> VADResult(st = "speech", EnergyConfidence(db), st)]

\* SimpleEnergyVAD.process(audio_chunk): one VADResult for the whole chunk of
\* chunk_samples samples, whose level is db
EnergyProcess(e, chunk_samples, db) ==
    LET is_speech_frame == db >= threshold_db
        sp == IF is_speech_frame THEN e.speech_samples + chunk_samples ELSE 0
        sl == IF is_speech_frame THEN 0 ELSE e.silence_samples + chunk_samples
        st == IF e.state = "silence"
              THEN IF SamplesReached(sp, min_speech_duration_ms) THEN "speech" ELSE "silence"
              ELSE IF SamplesReached(sl, min_silence_duration_ms) THEN "silence" ELSE "speech"
    IN  [energy |-> Energy(st, sp, sl),
         result |-> VADResult(st = "speech", EnergyConfidence(db), st)]

\* SimpleEnergyVAD.is_speech: self.process(audio_chunk).is_speech
EnergyIsSpeech(e, chunk_samples, db) ==
    LET r == EnergyProcess(e, chunk_samples, db)
    IN  [energy |-> r.energy, result |-> r.result, ret |-> r.result.is_speech]

EnergyNow == Energy(e_state, speech_samples, silence_samples)

\* what process() hands back: SileroVAD a List[VADResult], SimpleEnergyVAD one VADResult
ListOf(results) == [shape |-> "list", decisions |-> results]

OneResult(result) == [shape |-> "single", decisions |-> <<result>>]

\* what SimpleEnergyVAD.__init__ leaves: Silence, both run lengths zero
FreshEnergy == Energy("silence", 0, 0)

\* reset(): every field is assigned a constant, whatever the detector e held
EnergyReset(e) == Energy("silence", 0, 0)

EnergyInit ==
    /\ e_state = "silence"
    /\ speech_samples = 0
    /\ silence_samples = 0
    /\ e_call = [op |-> "init", returned |-> ListOf(<<>>), ret |-> FALSE, pre |-> FreshEnergy]

EnergyStep(op, r, returned, ret) ==
    /\ e_state' = r.energy.state
    /\ speech_samples' = r.energy.speech_samples
    /\ silence_samples' = r.energy.silence_samples
    /\ e_call' = [op |-> op, returned |-> returned, ret |-> ret, pre |-> FreshEnergy]

\* the neural and the energy variant classify a frame alike
SameClass(confidence, db) == (confidence >= threshold) <=> (db >= threshold_db)

\* both variants process() one frame of CHUNK_SAMPLES samples
BothProcess(confidence, db) ==
    /\ SameClass(confidence, db)
    /\ Process(CHUNK_SAMPLES, <<confidence>>)
    /\ LET r == EnergyProcess(EnergyNow, CHUNK_SAMPLES, db)
       IN  EnergyStep("process", r, OneResult(r.result), FALSE)

\* both variants answer is_speech() for one frame of CHUNK_SAMPLES samples
BothIsSpeech(confidence, db) ==
    /\ SameClass(confidence, db)
    /\ IsSpeech(CHUNK_SAMPLES, <<confidence>>)
    /\ LET r == EnergyIsSpeech(EnergyNow, CHUNK_SAMPLES, db)
       IN  EnergyStep("is_speech", r, ListOf(<<>>), r.ret)

\* both variants reset()
BothReset ==
    /\ VadReset
    /\ LET r == EnergyReset(EnergyNow)
       IN  /\ e_state' = r.state
           /\ speech_samples' = r.speech_samples
           /\ silence_samples' = r.silence_samples
           /\ e_call' = [op |-> "reset", returned |-> ListOf(<<>>), ret |-> FALSE,
                         pre |-> EnergyNow]

\* the windows scored between two resets when frames of any length are passed
MaxFrameWindows == 6

\* both variants process() the same frame of n samples: the neural one scores the
\* windows it completes, the energy one takes the level of the whole frame
FrameProcess(n, confs, db) ==
    /\ Len(vad_hist) + Len(confs) <= MaxFrameWindows
    /\ Process(n, confs)
    /\ LET r == EnergyProcess(EnergyNow, n, db)
       IN  EnergyStep("process", r, OneResult(r.result), FALSE)

\* both variants answer is_speech() for the same frame of n samples
FrameIsSpeech(n, confs, db) ==
    /\ Len(vad_hist) + Len(confs) <= MaxFrameWindows
    /\ IsSpeech(n, confs)
    /\ LET r == EnergyIsSpeech(EnergyNow, n, db)
       IN  EnergyStep("is_speech", r, OneResult(r.result), r.ret)

(***************************************************************************)
(* GlobalHotkeyManager                                                     *)
(***************************************************************************)
\* the modifiers _on_press tracks, each by its left key
Modifiers == {"ctrl", "alt", "shift", "cmd"}

\* the keys pressed and released: two function keys and two modifiers
Keys == {"f8", "f9", "ctrl", "shift"}

\* HotkeyConfig.to_pynput_key: F1..F12 by name, anything else is taken for F8
ToPynputKey(vk) == IF vk = "VK_F8" THEN "f8" ELSE IF vk = "VK_F9" THEN "f9" ELSE "f8"

\* a second hotkey a caller may register: its key, its modifiers
OtherConfigs ==
    { [key |-> "VK_F9", modifiers |-> {}],
      [key |-> "VK_F9", modifiers |-> {"ctrl"}],
      [key |-> "VK_A", modifiers |-> {"shift"}] }

Hotkey(id, config, callback) ==
    [id |-> id, key |-> config.key, modifiers |-> config.modifiers, callback |-> callback]

\* DEFAULT_HOTKEY = HotkeyConfig(key=VK.F8, modifiers=0)
DEFAULT_HOTKEY == [key |-> "VK_F8", modifiers |-> {}]

\* _on_press: the modifier a key adds to self._pressed_modifiers
WithModifier(mods, key) == IF key \in Modifiers THEN mods \cup {key} ELSE mods

\* _on_press: key == target_key, and no modifiers wanted or exactly those pressed
Matches(h, key, mods) ==
    /\ key = ToPynputKey(h.key)
    /\ \/ h.modifiers = {}
       \/ \A m \in Modifiers : (m \in h.modifiers) <=> (m \in mods)

\* callback() with the except branch missing
CallHotkey_NoExcept(h, raises) == [id |-> h.id, raised |-> raises, propagated |-> raises]

\* try: callback() except Exception: logger.error(...)
CallHotkey(h, raises) == [id |-> h.id, raised |-> raises, propagated |-> FALSE]

\* the for loop of _on_press over self._hotkeys.items(): raises(h) tells whether
\* the callback of h raises; an exception that propagates ends the loop
RECURSIVE Dispatch(_, _, _, _, _)
Dispatch(hs, key, mods, raises, done) ==
    IF hs = <<>>
    THEN [calls |-> done, propagated |-> FALSE]
    ELSE IF Matches(Head(hs), key, mods)
         THEN LET c == CallHotkey(Head(hs), raises[Head(hs).callback])
              IN  IF c.propagated
                  THEN [calls |-> Append(done, c), propagated |-> TRUE]
                  ELSE Dispatch(Tail(hs), key, mods, raises, Append(done, c))
         ELSE Dispatch(Tail(hs), key, mods, raises, done)

\* _on_press(key)
OnPress(hs, mods, key, raises) ==
    LET m == WithModifier(mods, key)
        r == Dispatch(hs, key, m, raises, <<>>)
    IN  [mods |-> m, calls |-> r.calls, propagated |-> r.propagated]

\* the ids of the registered hotkeys that a key press matches, in dict order
RECURSIVE MatchingIds(_, _, _)
MatchingIds(hs, key, mods) ==
    IF hs = <<>> THEN <<>>
    ELSE (IF Matches(Head(hs), key, mods) THEN <<Head(hs).id>> ELSE <<>>)
         \o MatchingIds(Tail(hs), key, mods)

HasId(hs, id) == \E i \in 1..Len(hs) : hs[i].id = id

\* self._hotkeys[hotkey_id] = (config, callback): a new key goes last, a known
\* key keeps its place
RegisterIn(hs, h) ==
    IF HasId(hs, h.id)
    THEN [i \in 1..Len(hs) |-> IF hs[i].id = h.id THEN h ELSE hs[i]]
    ELSE Append(hs, h)

\* del self._hotkeys[hotkey_id]
UnregisterIn(hs, id) == SelectSeq(hs, LAMBDA h : h.id # id)

NoPress == [key |-> "none", calls |-> <<>>, propagated |-> FALSE, expected |-> <<>>,
            after_failure |-> FALSE]

\* the manager as _init_components and run() leave it: hotkey 1 calls toggle()
MgrInit ==
    /\ hotkeys = <<Hotkey(1, DEFAULT_HOTKEY, "toggle")>>
    /\ pressed_modifiers = {}
    /\ mgr_running = TRUE
    /\ press_call = NoPress
    /\ had_failure = FALSE

\* register(hotkey_id, config, callback)
Register(config) ==
    /\ hotkeys' = RegisterIn(hotkeys, Hotkey(2, config, "other"))
    /\ UNCHANGED <<pressed_modifiers, mgr_running, press_call, had_failure>>

\* unregister(hotkey_id)
Unregister ==
    /\ HasId(hotkeys, 2)
    /\ hotkeys' = UnregisterIn(hotkeys, 2)
    /\ UNCHANGED <<pressed_modifiers, mgr_running, press_call, had_failure>>

\* the listener calls _on_press(key); the callback of hotkey 1 is toggle(), which
\* may find on_start or on_stop raising; the other callback may raise itself.  An
\* exception that left _on_press would end the listener's thread.
PressKey(key, other_raises, start_raises, stop_raises) ==
    /\ mgr_running
    /\ LET t == TogToggle(is_recording, last_toggle_time, now, on_start_set, on_stop_set,
                          start_raises, stop_raises)
           raises == [callback \in {"toggle", "other"} |->
                        IF callback = "toggle" THEN t.propagated ELSE other_raises]
           r == OnPress(hotkeys, pressed_modifiers, key, raises)
           toggled == \E i \in 1..Len(r.calls) : r.calls[i].id = 1
       IN  /\ pressed_modifiers' = r.mods
           /\ press_call' = [key |-> key, calls |-> r.calls, propagated |-> r.propagated,
                             expected |-> MatchingIds(hotkeys, key, r.mods),
                             after_failure |-> had_failure]
           /\ had_failure' =
                (had_failure \/ (toggled /\ t.raised)
                     \/ \E i \in 1..Len(r.calls) : r.calls[i].raised)
           /\ mgr_running' = ~r.propagated
           /\ IF toggled THEN TogStep("toggle", t) ELSE UNCHANGED togVars
    /\ UNCHANGED hotkeys

\* the listener calls _on_release(key)
ReleaseKey(key) ==
    /\ mgr_running
    /\ key \in pressed_modifiers
    /\ pressed_modifiers' = pressed_modifiers \ {key}
    /\ UNCHANGED <<hotkeys, mgr_running, press_call, had_failure>>

(***************************************************************************)
(* LatencyTimer and LatencyLogger                                          *)
(***************************************************************************)
\* the largest value of the clock
MaxStamp == 2

\* the largest capacity of a logger
MaxHistory == 3

\* the largest number of log() calls between two clear()
MaxLogs == 5

\* the longest history whose percentiles are taken
MaxSamples == 101

\* the largest rotation of a history
MaxShift == 2

\* MeasurementPoint
Points == {"speech_end", "stt_start", "stt_end", "injection_start", "injection_end"}

\* self._timestamps: Dict[MeasurementPoint, float] = {}
NoMarks == [point \in {} |-> 0]

TextLengths == {0, 5}

\* LatencyTimer.mark: self._timestamps[point] = time.perf_counter() * 1000
TimerMark(ts, point, clock) ==
    [p \in (DOMAIN ts) \cup {point} |-> IF p = point THEN clock ELSE ts[p]]

\* LatencyMeasurement(text_length=text_length): every duration defaults to 0.0
LatencyMeasurement(text_length) ==
    [speech_end_to_stt_start_ms |-> 0,
     stt_duration_ms            |-> 0,
     stt_end_to_injection_ms    |-> 0,
     injection_duration_ms      |-> 0,
     total_latency_ms           |-> 0,
     text_length                |-> text_length]

\* LatencyTimer.get_measurement: every interval is computed inside
\* "if MeasurementPoint.SPEECH_END in self._timestamps"; stt_duration and
\* stt_end_to_injection inside "if STT_END in", injection_duration and the total
\* inside "if INJECTION_END in"
GetMeasurement(ts, text_length) ==
    LET has(point) == point \in DOMAIN ts
        m0 == LatencyMeasurement(text_length)
    IN  IF ~has("speech_end")
        THEN m0
        ELSE [m0 EXCEPT
               !.speech_end_to_stt_start_ms =
                   IF has("stt_start") THEN ts["stt_start"] - ts["speech_end"] ELSE @,
               !.stt_duration_ms =
                   IF has("stt_end") /\ has("stt_start")
                   THEN ts["stt_end"] - ts["stt_start"] ELSE @,
               !.stt_end_to_injection_ms =
                   IF has("stt_end") /\ has("injection_start")
                   THEN ts["injection_start"] - ts["stt_end"] ELSE @,
               !.injection_duration_ms =
                   IF has("injection_end") /\ has("injection_start")
                   THEN ts["injection_end"] - ts["injection_start"] ELSE @,
               !.total_latency_ms =
                   IF has("injection_end") THEN ts["injection_end"] - ts["speech_end"] ELSE @]

NoTimerCall == [op |-> "none", marks |-> NoMarks, ret |-> LatencyMeasurement(0)]

\* LatencyTimer.__init__
TimerInit ==
    /\ timestamps = NoMarks
    /\ timer_clock = 0
    /\ timer_call = NoTimerCall

\* time passes between two calls
TimerTick ==
    /\ timer_clock < MaxStamp
    /\ timer_clock' = timer_clock + 1
    /\ UNCHANGED <<timestamps, timer_call, max_history, logged, logger_call>>

\* LatencyTimer.mark(point)
Mark(point) ==
    /\ timestamps' = TimerMark(timestamps, point, timer_clock)
    /\ timer_call' = NoTimerCall
    /\ UNCHANGED <<timer_clock, max_history, logged, logger_call>>

\* LatencyTimer.reset(): self._timestamps.clear()
TimerReset ==
    /\ timestamps' = NoMarks
    /\ timer_call' = NoTimerCall
    /\ UNCHANGED <<timer_clock, max_history, logged, logger_call>>

\* LatencyTimer.get_measurement(text_length)
TimerGetMeasurement(text_length) ==
    /\ timer_call' = [op    |-> "get_measurement",
                      marks |-> timestamps,
                      ret   |-> GetMeasurement(timestamps, text_length)]
    /\ UNCHANGED <<timestamps, timer_clock, max_history, logged, logger_call>>

\* LatencyLogger.__init__(max_history=1000)
DEFAULT_MAX_HISTORY == 1000

\* deque.append on a deque(maxlen=maxlen) that keeps the newest: the mutant of
\* DequeAppend that discards the new item when the deque is full
DequeAppend_DropsNewest(d, x, maxlen) == IF Len(d) < maxlen THEN Append(d, x) ELSE d

\* deque(maxlen=maxlen).append(x): when the deque is full the item at the other
\* end is discarded; a deque of maxlen 0 stays empty
DequeAppend(d, x, maxlen) ==
    IF maxlen = 0 THEN d
    ELSE IF Len(d) < maxlen THEN Append(d, x) ELSE Append(Tail(d), x)

\* an exact quotient a / b of integers, b > 0, in lowest terms
RECURSIVE GCD(_, _)
GCD(a, b) == IF b = 0 THEN a ELSE GCD(b, a % b)

Frac(a, b) == LET g == GCD(a, b) IN [num |-> a \div g, den |-> b \div g]

\* the square root of a non-negative quotient, kept as its radicand
Sqrt(q) == [sqrt_of |-> q]

RECURSIVE SumOf(_)
SumOf(xs) == IF xs = <<>> THEN 0 ELSE Head(xs) + SumOf(Tail(xs))

Squares(xs) == [i \in 1..Len(xs) |-> xs[i] * xs[i]]

\* sorted(latencies): the i-th item is the value with fewer than i items below it
\* and at least i items not above it
Sorted(xs) ==
    LET values == {xs[j] : j \in 1..Len(xs)}
        below  == [v \in values |-> Cardinality({j \in 1..Len(xs) : xs[j] < v})]
        upto   == [v \in values |-> Cardinality({j \in 1..Len(xs) : xs[j] <= v})]
    IN  [i \in 1..Len(xs) |-> CHOOSE v \in values : below[v] < i /\ i <= upto[v]]

\* seq[index] with Python's index from 0
Item(xs, index) == xs[index + 1]

\* LatencyStatistics(): every field defaults to 0
LatencyStatistics ==
    [count     |-> 0,
     mean_ms   |-> Frac(0, 1),
     median_ms |-> Frac(0, 1),
     min_ms    |-> 0,
     max_ms    |-> 0,
     stddev_ms |-> Sqrt(Frac(0, 1)),
     p95_ms    |-> 0,
     p99_ms    |-> 0]

\* statistics.mean
Mean(xs) == Frac(SumOf(xs), Len(xs))

\* statistics.median: the middle item of the sorted data, the mean of the two
\* middle items when their number is even
Median(xs) ==
    LET n == Len(xs)
        sorted == Sorted(xs)
    IN  IF n % 2 = 1
        THEN Frac(Item(sorted, n \div 2), 1)
        ELSE Frac(Item(sorted, n \div 2 - 1) + Item(sorted, n \div 2), 2)

\* statistics.stdev: the square root of the sample variance, the sum of the squared
\* deviations from the mean divided by n - 1:
\*   sum((x - mean)^2) = (n * sum(x^2) - sum(x)^2) / n
Stdev(xs) ==
    LET n == Len(xs)
    IN  Sqrt(Frac(n * SumOf(Squares(xs)) - SumOf(xs) * SumOf(xs), n * (n - 1)))

\* int(n * 0.95) that rounds up: the mutant of IntOfProduct that is not a floor
IntOfProduct_RoundsUp(n, hundredths) == (n * hundredths + 99) \div 100

\* int(n * 0.95), int(n * 0.99): the products are below their exact values by less
\* than the distance to the next integer for every n up to the capacity, so the
\* truncation is the integer quotient
IntOfProduct(n, hundredths) == (n * hundredths) \div 100

\* get_statistics that takes the first and the last measurement for the least and
\* the greatest: the mutant of GetStatistics without min() and max()
GetStatistics_FirstAndLast(history) ==
    IF history = <<>>
    THEN LatencyStatistics
    ELSE [count     |-> Len(history),
          mean_ms   |-> Mean(history),
          median_ms |-> Median(history),
          min_ms    |-> Item(history, 0),
          max_ms    |-> Item(history, Len(history) - 1),
          stddev_ms |-> IF Len(history) > 1 THEN Stdev(history) ELSE Sqrt(Frac(0, 1)),
          p95_ms    |-> Item(Sorted(history), Len(history) - 1),
          p99_ms    |-> Item(Sorted(history), Len(history) - 1)]

\* get_statistics that reads the percentiles from latencies instead of
\* sorted_latencies
GetStatistics_UnsortedPercentiles(history) ==
    IF history = <<>>
    THEN LatencyStatistics
    ELSE LET latencies == history
             sorted_latencies == Sorted(latencies)
             n == Len(latencies)
         IN  [count     |-> n,
              mean_ms   |-> Mean(latencies),
              median_ms |-> Median(latencies),
              min_ms    |-> Item(sorted_latencies, 0),
              max_ms    |-> Item(sorted_latencies, n - 1),
              stddev_ms |-> IF n > 1 THEN Stdev(latencies) ELSE Sqrt(Frac(0, 1)),
              p95_ms    |-> IF n >= 20 THEN Item(latencies, IntOfProduct(n, 95))
                            ELSE Item(sorted_latencies, n - 1),
              p99_ms    |-> IF n >= 100 THEN Item(latencies, IntOfProduct(n, 99))
                            ELSE Item(sorted_latencies, n - 1)]

\* LatencyLogger.get_statistics
GetStatistics(history) ==
    IF history = <<>>
    THEN LatencyStatistics
    ELSE LET latencies == history
             sorted_latencies == Sorted(latencies)
             n == Len(latencies)
         IN  [count     |-> n,
              mean_ms   |-> Mean(latencies),
              median_ms |-> Median(latencies),
              min_ms    |-> Item(sorted_latencies, 0),
              max_ms    |-> Item(sorted_latencies, n - 1),
              stddev_ms |-> IF n > 1 THEN Stdev(latencies) ELSE Sqrt(Frac(0, 1)),
              p95_ms    |-> IF n >= 20 THEN Item(sorted_latencies, IntOfProduct(n, 95))
                            ELSE Item(sorted_latencies, n - 1),
              p99_ms    |-> IF n >= 100 THEN Item(sorted_latencies, IntOfProduct(n, 99))
                            ELSE Item(sorted_latencies, n - 1)]

\* check_target that wants every retained measurement within the target: the
\* mutant of CheckTargetOf that looks at more than self._measurements[-1]
CheckTargetOf_AllWithin(history, target_ms) ==
    \A i \in 1..Len(history) : history[i] <= target_ms

\* LatencyLogger.check_target: True without measurements, else whether the last
\* one is within the target
CheckTargetOf(history, target_ms) ==
    IF history = <<>> THEN TRUE ELSE history[Len(history)] <= target_ms

\* list(self._measurements)[-count:]: the slice starts count items before the end,
\* at the first item when there are fewer; -0 is 0, the first item
GetRecent(history, count) ==
    LET n == Len(history)
        start == IF count = 0 THEN 0 ELSE IF count > n THEN 0 ELSE n - count
    IN  SubSeq(history, start + 1, n)

NoLoggerCall == [op |-> "none", arg |-> 0, ret |-> 0]

\* the logger of the orchestrator: get_latency_logger() -> LatencyLogger()
LoggerRest ==
    /\ max_history = DEFAULT_MAX_HISTORY
    /\ logged = <<>>
    /\ logger_call = NoLoggerCall

\* LatencyLogger(max_history=n)
LoggerInit ==
    /\ max_history \in 0..MaxHistory
    /\ logged = <<>>
    /\ logger_call = NoLoggerCall

\* the measurements that are logged, told apart by their total_latency_ms
Totals == 0..MaxStamp

\* n latencies in descending order, rotated by shift; coarse = 1 makes them all
\* different, coarse = 2 makes pairs of equal ones
Ramp(n, shift, coarse) == [i \in 1..n |-> ((n - i + shift) % n) \div coarse]

\* a logger of the default capacity after n log() calls
LoggerAfterLogs ==
    /\ max_history = DEFAULT_MAX_HISTORY
    /\ \E n \in 0..MaxSamples, shift \in 0..MaxShift, coarse \in {1, 2} :
         logged = Ramp(n, shift, coarse)
    /\ logger_call = NoLoggerCall

\* LatencyLogger.log(measurement): self._measurements.append(measurement)
LoggerLog(measurement) ==
    /\ Len(logged) < MaxLogs
    /\ measurements' = DequeAppend(measurements, measurement, max_history)
    /\ logged' = Append(logged, measurement)
    /\ logger_call' = NoLoggerCall
    /\ UNCHANGED <<timestamps, timer_clock, timer_call, max_history>>

\* LatencyLogger.clear(): self._measurements.clear()
LoggerClear ==
    /\ measurements' = <<>>
    /\ logged' = <<>>
    /\ logger_call' = NoLoggerCall
    /\ UNCHANGED <<timestamps, timer_clock, timer_call, max_history>>

\* LatencyLogger.get_statistics()
LoggerGetStatistics ==
    /\ logger_call' = [op |-> "get_statistics", arg |-> 0, ret |-> GetStatistics(measurements)]
    /\ UNCHANGED <<measurements, timestamps, timer_clock, timer_call, max_history, logged>>

\* LatencyLogger.check_target(target_ms)
LoggerCheckTarget(target_ms) ==
    /\ logger_call' = [op  |-> "check_target", arg |-> target_ms,
                       ret |-> CheckTargetOf(measurements, target_ms)]
    /\ UNCHANGED <<measurements, timestamps, timer_clock, timer_call, max_history, logged>>

\* LatencyLogger.get_recent(count)
LoggerGetRecent(count) ==
    /\ logger_call' = [op  |-> "get_recent", arg |-> count,
                       ret |-> GetRecent(measurements, count)]
    /\ UNCHANGED <<measurements, timestamps, timer_clock, timer_call, max_history, logged>>

(***************************************************************************)
(* TextInjector                                                            *)
(***************************************************************************)
\* the longest text injected
MaxTextLen == 3

\* the characters of a text
Chars == {"a", "b"}

Texts == UNION {[1..k -> Chars] : k \in 0..MaxTextLen}

\* what SendInput(2, inputs, size) returns: the number of events it inserted
SendInputResults == {0, 1, 2}

InjectionResult(success, characters_sent, failed_characters) ==
    [success |-> success, characters_sent |-> characters_sent,
     failed_characters |-> failed_characters]

\* inject_char: the key-down and the key-up event are sent, result == 2; nothing
\* in it raises for a character that is not sent
InjectChar(result) == [success |-> result = 2, raised |-> FALSE]

\* the for loop of inject(), from the i-th character on: attempted are the
\* characters passed to inject_char so far
RECURSIVE InjectLoop(_, _, _, _, _, _)
InjectLoop(text, results, i, characters_sent, failed_characters, attempted) ==
    IF i > Len(text)
    THEN [ret       |-> InjectionResult(failed_characters = <<>>, characters_sent,
                                        failed_characters),
          attempted |-> attempted,
          raised    |-> FALSE]
    ELSE LET sent == InjectChar(results[i])
         IN  IF sent.raised
             THEN [ret       |-> InjectionResult(FALSE, characters_sent, failed_characters),
                   attempted |-> Append(attempted, text[i]),
                   raised    |-> TRUE]
             ELSE IF sent.success
             THEN InjectLoop(text, results, i + 1, characters_sent + 1, failed_characters,
                             Append(attempted, text[i]))
             ELSE InjectLoop(text, results, i + 1, characters_sent,
                             Append(failed_characters, text[i]), Append(attempted, text[i]))

\* inject() that gives up at the first character that is not sent: the mutant of
\* InjectText that is not best-effort
InjectText_StopsAtFailure(text, results) ==
    LET failing == {i \in 1..Len(text) : results[i] # 2}
        upto == IF failing = {} THEN Len(text) ELSE CHOOSE i \in failing : \A j \in failing : i <= j
    IN  InjectLoop(SubSeq(text, 1, upto), results, 1, 0, <<>>, <<>>)

\* TextInjector.inject(text): an empty text succeeds with nothing sent
InjectText(text, results) ==
    IF text = <<>>
    THEN [ret |-> InjectionResult(TRUE, 0, <<>>), attempted |-> <<>>, raised |-> FALSE]
    ELSE InjectLoop(text, results, 1, 0, <<>>, <<>>)

NoInjectCall ==
    [op |-> "none", text |-> <<>>, results |-> <<>>,
     ret |-> InjectionResult(TRUE, 0, <<>>), attempted |-> <<>>, raised |-> FALSE]

\* TextInjector.__init__
InjectInit == inject_call = NoInjectCall

\* inject(text), SendInput returning results[i] for the i-th character
InjectCall(text, results) ==
    LET r == InjectText(text, results)
    IN  inject_call' = [op |-> "inject", text |-> text, results |-> results,
                        ret |-> r.ret, attempted |-> r.attempted, raised |-> r.raised]

(***************************************************************************)
(* WhisperStreamProcessor                                                  *)
(***************************************************************************)
\* SAMPLE_RATE * MIN_AUDIO_DURATION_S = 16000 * 0.5 samples
MIN_AUDIO_SAMPLES == SAMPLE_RATE \div 2

\* the lengths of audio_data in bytes: one sample short of the minimum, one byte
\* more (not a whole number of int16 samples), the minimum, one sample more
AudioLengths ==
    {2 * MIN_AUDIO_SAMPLES - 2, 2 * MIN_AUDIO_SAMPLES - 1, 2 * MIN_AUDIO_SAMPLES,
     2 * MIN_AUDIO_SAMPLES + 2}

\* the calls since construction are counted up to this many
MaxTranscribes == 4

Whisper(st, model, ended) == [state |-> st, model |-> model, ended |-> ended]

\* _load_model(): WhisperModel(...) is constructed while self._model is None, and
\* its exception leaves the caller
LoadModel(st, model, load_ok) ==
    IF model \/ load_ok THEN Whisper(st, TRUE, "returned") ELSE Whisper(st, FALSE, "raised")

\* transcribe(audio_data): the state is assigned PROCESSING after the model is
\* loaded, IDLE before the return for short audio, COMPLETED before the return
\* of a result; np.frombuffer raises on a byte length that is odd, and
\* self._model.transcribe or the iteration of its segments may raise; there is
\* no try/finally around any of it
WhisperTranscribe(st, model, audio_bytes, load_ok, infer_ok) ==
    LET loaded == LoadModel(st, model, load_ok)
    IN  IF loaded.ended = "raised" THEN loaded
        ELSE IF audio_bytes % 2 # 0 THEN Whisper("processing", TRUE, "raised")
        ELSE IF audio_bytes \div 2 < MIN_AUDIO_SAMPLES THEN Whisper("idle", TRUE, "returned")
        ELSE IF ~infer_ok THEN Whisper("processing", TRUE, "raised")
        ELSE Whisper("completed", TRUE, "returned")

NoWhisperCall ==
    [op |-> "init", audio_bytes |-> 0, pre_state |-> "idle", pre_model |-> FALSE,
     ended |-> "returned", seq |-> 0]

WhisperInit ==
    /\ stt_state = "idle"
    /\ stt_model = FALSE
    /\ stt_call = NoWhisperCall

WhisperStep(op, audio_bytes, r) ==
    /\ stt_call.seq < MaxTranscribes
    /\ stt_state' = r.state
    /\ stt_model' = r.model
    /\ stt_call' = [op |-> op, audio_bytes |-> audio_bytes, pre_state |-> stt_state,
                    pre_model |-> stt_model, ended |-> r.ended, seq |-> stt_call.seq + 1]

\* preload(): self._load_model()
Preload(load_ok) == WhisperStep("preload", 0, LoadModel(stt_state, stt_model, load_ok))

SttTranscribe(audio_bytes, load_ok, infer_ok) ==
    WhisperStep("transcribe", audio_bytes,
                WhisperTranscribe(stt_state, stt_model, audio_bytes, load_ok, infer_ok))

(***************************************************************************)
(* VoiceInputAgent: the capture-delivery context ("cap", PortAudio's       *)
(* callback thread), the hotkey context ("hk", the keyboard listener's     *)
(* thread) and the control context ("ctl", the main thread in run() and    *)
(* stop()).  A step is one statement that touches shared state; the        *)
(* interpreter may switch contexts between any two of them.                *)
(***************************************************************************)
Threads == {"cap", "hk", "ctl"}

\* the frames the audio device produces in a run
MaxPipeFrames == 6

\* CHUNK_SIZE = 1024 samples: two windows of the detector per frame
CHUNK_SIZE == 2 * CHUNK_SAMPLES

\* the n-th frame the device produced, two bytes of it
PipeFrame(n) == <<n, n>>

\* the model's confidences for the windows of one frame: below or at the threshold
PipeConfSeqs == [1..WindowsIn(0, CHUNK_SIZE) -> {threshold - 1, threshold}]

\* where a context continues when _process_audio (or a flush of nothing) returns:
\* the callback and toggle() return; stop() goes on to self._hotkey_manager.stop()
After(t) == IF t = "ctl" THEN "hkstop" ELSE "idle"

Goto(t, l) == pc' = [pc EXCEPT ![t] = l]

At(t, l) == pc[t] = l

NoCb == [chunk |-> <<>>, is_speech |-> FALSE]

\* SileroVAD.__init__ stores its arguments and leaves self._model None: it raises
\* nothing, whether or not the model can be loaded
SileroInitRaises(ok) == FALSE

\* _init_components with use_silero_vad=True (the default): SimpleEnergyVAD when
\* the constructor of SileroVAD raises
InitComponentsVad(ok) == IF SileroInitRaises(ok) THEN "energy" ELSE "silero"

\* SileroVAD.process: self._load_model() calls torch.hub.load while _model is None
LoadModelRaises(variant, ok) == variant = "silero" /\ ~ok

PipeInitRest ==
    /\ vad_variant = InitComponentsVad(model_ok)
    /\ cap_raised = FALSE
    /\ stt_failed = FALSE
    /\ stt_escaped = {}
    /\ lost_speech = FALSE
    /\ pc = [t \in Threads |-> IF t = "ctl" THEN "main" ELSE "idle"]
    /\ utter = [t \in Threads |-> <<>>]
    /\ cb = NoCb
    /\ hk_saw = FALSE
    /\ running = TRUE
    /\ listener = TRUE
    /\ cap_recording = FALSE
    /\ cap_stream = FALSE
    /\ cap_lock = "none"
    /\ frame_no = 0

\* ... and get_latency_logger() gives a logger without measurements
PipeInit == PipeInitRest /\ measurements = <<>>

\* WasapiCapture._audio_callback -> VoiceInputAgent._on_audio_chunk, up to self._vad.is_speech
CapDeliver ==
    /\ At("cap", "idle")
    /\ cap_stream
    /\ frame_no < MaxPipeFrames
    /\ frame_no' = frame_no + 1
    /\ IF cap_recording
       THEN IF LoadModelRaises(vad_variant, model_ok)
            THEN \* process(): self._load_model() raises; no handler up to the callback
                 /\ cap_raised' = TRUE
                 /\ UNCHANGED <<vadCore, cb, pc>>
            ELSE \E confs \in PipeConfSeqs :
                   LET r == VadIsSpeech(VadNow, vad_buffer, CHUNK_SIZE, confs)
                   IN  /\ vad_state' = r.vad.state
                       /\ speech_frames' = r.vad.speech_frames
                       /\ silence_frames' = r.vad.silence_frames
                       /\ vad_buffer' = r.buffer
                       /\ cb' = [chunk |-> PipeFrame(frame_no + 1), is_speech |-> r.ret]
                       /\ Goto("cap", "add")
                       /\ UNCHANGED cap_raised
       ELSE UNCHANGED <<vadCore, cb, pc, cap_raised>>
    /\ UNCHANGED <<accCore, togCore, now, histVars, loadVars, sttVars, lost_speech, utter, hk_saw, running, listener,
                   cap_recording, cap_stream, cap_lock, measurements>>

\* self._accumulator.add(audio_data, is_speech), up to its return or to bytes(self._buffer)
CapAdd ==
    /\ At("cap", "add")
    /\ LET r == AccAdd(buffer, is_accumulating, cb.chunk, cb.is_speech, max_bytes)
       IN  IF r.ret.some
           THEN /\ buffer' = (IF cb.is_speech THEN buffer \o cb.chunk ELSE buffer)
                /\ is_accumulating' = (cb.is_speech \/ is_accumulating)
                /\ utter' = [utter EXCEPT !["cap"] = r.ret.val]
                /\ Goto("cap", "add_clear")
           ELSE /\ buffer' = r.buffer
                /\ is_accumulating' = r.flag
                /\ UNCHANGED utter
                /\ Goto("cap", "idle")
    /\ cb' = NoCb
    /\ UNCHANGED <<vadCore, togCore, now, histVars, loadVars, sttVars, lost_speech, cap_raised, hk_saw, running, listener,
                   cap_recording, cap_stream, cap_lock, measurements, frame_no>>

\* add(): self._buffer.clear(); self._is_accumulating = False; return result,
\* and _on_audio_chunk: if complete_audio: self._process_audio(complete_audio)
CapAddClear ==
    /\ At("cap", "add_clear")
    /\ buffer' = AccClear(buffer, is_accumulating).buffer
    /\ is_accumulating' = AccClear(buffer, is_accumulating).flag
    /\ IF utter["cap"] # <<>> THEN Goto("cap", "stt") ELSE Goto("cap", "idle")
    /\ UNCHANGED <<vadCore, togCore, now, histVars, loadVars, sttVars, lost_speech, cap_raised, utter, cb, hk_saw, running, listener,
                   cap_recording, cap_stream, cap_lock, measurements, frame_no>>

\* _audio_callback has called _on_audio_chunk and that has called _process_audio
CallbackInProcessAudio == pc["cap"] \in {"stt", "inject", "log", "check"}

\* The stream has its next buffer of CHUNK_SIZE samples while _audio_callback has
\* not returned from _process_audio.  The audio subsystem either keeps the buffer
\* until the callback returns (CapDeliver then passes it on) or, its callback
\* still running, discards it as an input overflow, which is this step; the
\* status argument of _audio_callback is not looked at.
CapOverflow ==
    /\ cap_stream
    /\ CallbackInProcessAudio
    /\ frame_no < MaxPipeFrames
    /\ frame_no' = frame_no + 1
    /\ \E speech \in BOOLEAN : lost_speech' = (lost_speech \/ speech)
    /\ UNCHANGED <<accCore, vadCore, togCore, now, histVars, loadVars, sttVars, cap_raised, pc, utter,
                   cb, hk_saw, running, listener, cap_recording, cap_stream, cap_lock,
                   measurements>>

\* the clock passes the debounce window of the last accepted toggle
PipeTick ==
    /\ now - last_toggle_time < debounce_ms
    /\ now + debounce_ms <= MaxTime
    /\ now' = now + debounce_ms
    /\ UNCHANGED <<accCore, vadCore, togCore, histVars, pipeVars>>

\* GlobalHotkeyManager._on_press -> RecordingToggle.toggle: _check_debounce() and the
\* read of self._is_recording
HkPress ==
    /\ At("hk", "idle")
    /\ listener
    /\ IF CheckDebounce(last_toggle_time, now)
       THEN /\ last_toggle_time' = now
            /\ hk_saw' = is_recording
            /\ Goto("hk", "toggle_w")
       ELSE UNCHANGED <<last_toggle_time, hk_saw, pc>>
    /\ UNCHANGED <<accCore, vadCore, is_recording, now, histVars, loadVars, sttVars, lost_speech, cap_raised, utter, cb, running,
                   listener, cap_recording, cap_stream, cap_lock, measurements, frame_no>>

\* toggle(): self._is_recording = False / True, then on_stop() / on_start()
HkToggleWrite ==
    /\ At("hk", "toggle_w")
    /\ is_recording' = ~hk_saw
    /\ IF hk_saw THEN Goto("hk", "stop_acquire") ELSE Goto("hk", "start")
    /\ UNCHANGED <<accCore, vadCore, last_toggle_time, now, histVars, loadVars, sttVars, lost_speech, cap_raised, utter, cb, hk_saw,
                   running, listener, cap_recording, cap_stream, cap_lock, measurements,
                   frame_no>>

\* _on_recording_start: self._vad.reset(); self._accumulator.clear()
OnStartReset ==
    /\ At("hk", "start")
    /\ vad_state' = "silence"
    /\ speech_frames' = 0
    /\ silence_frames' = 0
    /\ vad_buffer' = 0
    /\ buffer' = AccClear(buffer, is_accumulating).buffer
    /\ is_accumulating' = AccClear(buffer, is_accumulating).flag
    /\ Goto("hk", "start_cap")
    /\ UNCHANGED <<togCore, now, histVars, loadVars, sttVars, lost_speech, cap_raised, utter, cb, hk_saw, running, listener,
                   cap_recording, cap_stream, cap_lock, measurements, frame_no>>

\* _on_recording_start: self._capture.start(callback), all of it under self._lock;
\* opening the stream may raise, and toggle() then rolls _is_recording back
OnStartCapture ==
    /\ At("hk", "start_cap")
    /\ cap_lock = "none"
    /\ \E opened \in BOOLEAN :
         IF cap_recording
         THEN UNCHANGED <<cap_recording, cap_stream, is_recording>>
         ELSE IF opened
              THEN /\ cap_recording' = TRUE
                   /\ cap_stream' = TRUE
                   /\ UNCHANGED is_recording
              ELSE /\ is_recording' = FALSE
                   /\ UNCHANGED <<cap_recording, cap_stream>>
    /\ Goto("hk", "idle")
    /\ UNCHANGED <<accCore, vadCore, last_toggle_time, now, histVars, loadVars, sttVars, lost_speech, cap_raised, utter, cb, hk_saw,
                   running, listener, cap_lock, measurements, frame_no>>

\* WasapiCapture.stop(): with self._lock: self._is_recording = False
StopAcquire(t, from, to) ==
    /\ At(t, from)
    /\ cap_lock = "none"
    /\ cap_lock' = t
    /\ cap_recording' = FALSE
    /\ Goto(t, to)
    /\ UNCHANGED <<accCore, vadCore, togCore, now, histVars, loadVars, sttVars, lost_speech, cap_raised, utter, cb, hk_saw, running,
                   listener, cap_stream, measurements, frame_no>>

\* WasapiCapture.stop(): stop_stream() returns when no callback is running any more;
\* close(), self._stream = None, self._callback = None, and the lock is released
StopClose(t, from, to) ==
    /\ At(t, from)
    /\ cap_lock = t
    /\ cap_stream => At("cap", "idle")
    /\ cap_stream' = FALSE
    /\ cap_lock' = "none"
    /\ Goto(t, to)
    /\ UNCHANGED <<accCore, vadCore, togCore, now, histVars, loadVars, sttVars, lost_speech, cap_raised, utter, cb, hk_saw, running,
                   listener, cap_recording, measurements, frame_no>>

\* _on_recording_stop: self._accumulator.flush(), up to its return of None or to
\* bytes(self._buffer)
FlushRead(t) ==
    /\ At(t, "flush")
    /\ LET r == AccFlush(buffer, is_accumulating)
       IN  IF r.ret.some
           THEN /\ utter' = [utter EXCEPT ![t] = r.ret.val]
                /\ Goto(t, "flush_clear")
           ELSE /\ UNCHANGED utter
                /\ Goto(t, After(t))
    /\ UNCHANGED <<accCore, vadCore, togCore, now, histVars, loadVars, sttVars, lost_speech, cap_raised, cb, hk_saw, running, listener,
                   cap_recording, cap_stream, cap_lock, measurements, frame_no>>

\* flush(): self._buffer.clear(); self._is_accumulating = False; return result,
\* and _on_recording_stop: if audio_data: self._process_audio(audio_data)
FlushClear(t) ==
    /\ At(t, "flush_clear")
    /\ buffer' = AccClear(buffer, is_accumulating).buffer
    /\ is_accumulating' = AccClear(buffer, is_accumulating).flag
    /\ IF utter[t] # <<>> THEN Goto(t, "stt") ELSE Goto(t, After(t))
    /\ UNCHANGED <<vadCore, togCore, now, histVars, loadVars, sttVars, lost_speech, cap_raised, utter, cb, hk_saw, running, listener,
                   cap_recording, cap_stream, cap_lock, measurements, frame_no>>

\* _process_audio without its except branch: the exception of transcribe leaves it
ProcessAudio_NoExcept(outcome) ==
    IF outcome = "text" THEN "inject" ELSE IF outcome = "skip" THEN "return" ELSE "raise"

\* _process_audio after self._stt.transcribe(audio_data): a valid text goes on to
\* injection; an empty or filtered text falls through to the return; an exception
\* is caught by except Exception, logged, and the function returns
ProcessAudioAfterStt(outcome) == IF outcome = "text" THEN "inject" ELSE "return"

\* where an exception that left _process_audio would end: in the audio subsystem
\* that called the callback, in the except branch of toggle(), outside stop()
Unwound(t) == IF t = "ctl" THEN "done" ELSE "idle"

\* _process_audio: self._stt.transcribe(audio_data) returns a valid text, returns an
\* empty or filtered text, or raises
Transcribe(t) ==
    /\ At(t, "stt")
    /\ \E outcome \in {"text", "skip", "raise"} :
         LET next == ProcessAudioAfterStt(outcome)
         IN  /\ stt_failed' = (stt_failed \/ outcome = "raise")
             /\ IF next = "inject"
                THEN /\ Goto(t, "inject")
                     /\ UNCHANGED <<utter, stt_escaped, cap_raised>>
                ELSE IF next = "return"
                THEN /\ Goto(t, After(t))
                     /\ utter' = [utter EXCEPT ![t] = <<>>]
                     /\ UNCHANGED <<stt_escaped, cap_raised>>
                ELSE /\ Goto(t, Unwound(t))
                     /\ utter' = [utter EXCEPT ![t] = <<>>]
                     /\ stt_escaped' = stt_escaped \cup {t}
                     /\ cap_raised' = (cap_raised \/ t = "cap")
    /\ UNCHANGED <<accCore, vadCore, togCore, now, histVars, loadVars, lost_speech, cb, hk_saw,
                   running, listener, cap_recording, cap_stream, cap_lock, measurements, frame_no>>

\* _process_audio: self._injector.inject_with_ime_workaround(clean_text)
Inject(t) ==
    /\ At(t, "inject")
    /\ Goto(t, "log")
    /\ UNCHANGED <<accCore, vadCore, togCore, now, histVars, loadVars, sttVars, lost_speech, cap_raised, utter, cb, hk_saw, running,
                   listener, cap_recording, cap_stream, cap_lock, measurements, frame_no>>

\* _process_audio: self._latency_logger.log(measurement): self._measurements.append
Log(t) ==
    /\ At(t, "log")
    /\ measurements' = DequeAppend(measurements, utter[t], max_history)
    /\ Goto(t, "check")
    /\ UNCHANGED <<accCore, vadCore, togCore, now, histVars, loadVars, sttVars, lost_speech, cap_raised, utter, cb, hk_saw, running,
                   listener, cap_recording, cap_stream, cap_lock, frame_no>>

\* _process_audio: self._latency_logger.check_target(500.0), and the return
CheckTarget(t) ==
    /\ At(t, "check")
    /\ utter' = [utter EXCEPT ![t] = <<>>]
    /\ Goto(t, After(t))
    /\ UNCHANGED <<accCore, vadCore, togCore, now, histVars, loadVars, sttVars, lost_speech, cap_raised, cb, hk_saw, running, listener,
                   cap_recording, cap_stream, cap_lock, measurements, frame_no>>

\* VoiceInputAgent.stop(): self._running = False; if self._recording_toggle.is_recording
CtlStop ==
    /\ At("ctl", "main")
    /\ running
    /\ running' = FALSE
    /\ IF is_recording THEN Goto("ctl", "tstop") ELSE Goto("ctl", "hkstop")
    /\ UNCHANGED <<accCore, vadCore, togCore, now, histVars, loadVars, sttVars, lost_speech, cap_raised, utter, cb, hk_saw, listener,
                   cap_recording, cap_stream, cap_lock, measurements, frame_no>>

\* RecordingToggle.stop(): if self._is_recording: self._is_recording = False; on_stop()
CtlToggleStop ==
    /\ At("ctl", "tstop")
    /\ IF is_recording
       THEN /\ is_recording' = FALSE
            /\ Goto("ctl", "stop_acquire")
       ELSE /\ UNCHANGED is_recording
            /\ Goto("ctl", "hkstop")
    /\ UNCHANGED <<accCore, vadCore, last_toggle_time, now, histVars, loadVars, sttVars, lost_speech, cap_raised, utter, cb, hk_saw,
                   running, listener, cap_recording, cap_stream, cap_lock, measurements,
                   frame_no>>

\* VoiceInputAgent.stop(): self._hotkey_manager.stop(); a handler already running goes on
CtlHotkeyStop ==
    /\ At("ctl", "hkstop")
    /\ listener' = FALSE
    /\ Goto("ctl", "fin_acquire")
    /\ UNCHANGED <<accCore, vadCore, togCore, now, histVars, loadVars, sttVars, lost_speech, cap_raised, utter, cb, hk_saw, running,
                   cap_recording, cap_stream, cap_lock, measurements, frame_no>>

\* VoiceInputAgent.stop(): stats = self._latency_logger.get_statistics()
CtlStatistics ==
    /\ At("ctl", "stats")
    /\ Goto("ctl", "done")
    /\ UNCHANGED <<accCore, vadCore, togCore, now, histVars, loadVars, sttVars, lost_speech, cap_raised, utter, cb, hk_saw, running,
                   listener, cap_recording, cap_stream, cap_lock, measurements, frame_no>>

\* the contexts that run _on_recording_stop: toggle() in "hk", stop() in "ctl"
Stoppers == {"hk", "ctl"}

InitAcc == AccInit /\ TogRest /\ VadInit /\ model_ok = TRUE /\ PipeInit /\ TimerInit /\ InjectInit /\ WhisperInit /\ LoggerRest /\ EnergyInit /\ MgrInit

NextAcc ==
    \/ \E c \in Frames, s \in BOOLEAN : Add(c, s) /\ UNCHANGED <<togVars, vadVars, pipeVars, energyVars, mgrVars, latVars, injVars, whisperVars>>
    \/ Flush /\ UNCHANGED <<togVars, vadVars, pipeVars, energyVars, mgrVars, latVars, injVars, whisperVars>>
    \/ Clear /\ UNCHANGED <<togVars, vadVars, pipeVars, energyVars, mgrVars, latVars, injVars, whisperVars>>

SpecAcc == InitAcc /\ [][NextAcc]_vars

InitToggle == TogInit /\ AccRest /\ VadInit /\ model_ok = TRUE /\ PipeInit /\ TimerInit /\ InjectInit /\ WhisperInit /\ LoggerRest /\ EnergyInit /\ MgrInit

NextToggle ==
    \/ \E d \in TickSteps : Tick(d) /\ UNCHANGED <<accVars, vadVars, pipeVars, energyVars, mgrVars, latVars, injVars, whisperVars>>
    \/ \E sr \in Raises(on_start_set), pr \in Raises(on_stop_set) :
          Toggle(sr, pr) /\ UNCHANGED <<accVars, vadVars, pipeVars, energyVars, mgrVars, latVars, injVars, whisperVars>>
    \/ \E sr \in Raises(on_start_set) : Start(sr) /\ UNCHANGED <<accVars, vadVars, pipeVars, energyVars, mgrVars, latVars, injVars, whisperVars>>
    \/ \E pr \in Raises(on_stop_set) : Stop(pr) /\ UNCHANGED <<accVars, vadVars, pipeVars, energyVars, mgrVars, latVars, injVars, whisperVars>>

SpecToggle == InitToggle /\ [][NextToggle]_vars

InitVAD == VadInit /\ AccRest /\ TogRest /\ model_ok = TRUE /\ PipeInit /\ TimerInit /\ InjectInit /\ WhisperInit /\ LoggerRest /\ EnergyInit /\ MgrInit

NextVAD ==
    \/ \E n \in FrameSamples : \E confs \in ConfSeqs(WindowsIn(vad_buffer, n)) :
          Process(n, confs) /\ UNCHANGED <<accVars, togVars, pipeVars, energyVars, mgrVars, latVars, injVars, whisperVars>>
    \/ \E n \in FrameSamples : \E confs \in ConfSeqs(WindowsIn(vad_buffer, n)) :
          IsSpeech(n, confs) /\ UNCHANGED <<accVars, togVars, pipeVars, energyVars, mgrVars, latVars, injVars, whisperVars>>
    \/ VadReset /\ UNCHANGED <<accVars, togVars, pipeVars, energyVars, mgrVars, latVars, injVars, whisperVars>>

SpecVAD == InitVAD /\ [][NextVAD]_vars

InitVariants == VadInit /\ EnergyInit /\ AccRest /\ TogRest /\ model_ok = TRUE /\ PipeInit /\ TimerInit /\ InjectInit /\ WhisperInit /\ LoggerRest /\ MgrInit

NextVariants ==
    \/ \E confidence \in Confidences, db \in Levels :
         BothProcess(confidence, db) /\ UNCHANGED <<accVars, togVars, pipeVars, mgrVars, latVars, injVars, whisperVars>>
    \/ \E confidence \in Confidences, db \in Levels :
         BothIsSpeech(confidence, db) /\ UNCHANGED <<accVars, togVars, pipeVars, mgrVars, latVars, injVars, whisperVars>>
    \/ BothReset /\ UNCHANGED <<accVars, togVars, pipeVars, mgrVars, latVars, injVars, whisperVars>>

SpecVariants == InitVariants /\ [][NextVariants]_vars

NextFrames ==
    \/ \E n \in FrameSamples, db \in Levels : \E confs \in ConfSeqs(WindowsIn(vad_buffer, n)) :
         FrameProcess(n, confs, db) /\ UNCHANGED <<accVars, togVars, pipeVars, mgrVars, latVars, injVars, whisperVars>>
    \/ \E n \in FrameSamples, db \in Levels : \E confs \in ConfSeqs(WindowsIn(vad_buffer, n)) :
         FrameIsSpeech(n, confs, db) /\ UNCHANGED <<accVars, togVars, pipeVars, mgrVars, latVars, injVars, whisperVars>>
    \/ BothReset /\ UNCHANGED <<accVars, togVars, pipeVars, mgrVars, latVars, injVars, whisperVars>>

\* the two variants given the same frames of any of the lengths
SpecFrames == InitVariants /\ [][NextFrames]_vars

InitHotkey == MgrInit /\ TogRest /\ AccRest /\ VadInit /\ EnergyInit /\ model_ok = TRUE /\ PipeInit /\ TimerInit /\ InjectInit /\ WhisperInit /\ LoggerRest

NextHotkey ==
    \/ \E config \in OtherConfigs :
         Register(config) /\ UNCHANGED <<accVars, togVars, vadVars, pipeVars, energyVars, latVars, injVars, whisperVars>>
    \/ Unregister /\ UNCHANGED <<accVars, togVars, vadVars, pipeVars, energyVars, latVars, injVars, whisperVars>>
    \/ \E key \in Keys, other_raises, start_raises, stop_raises \in BOOLEAN :
         /\ PressKey(key, other_raises, start_raises, stop_raises)
         /\ UNCHANGED <<accVars, vadVars, pipeVars, energyVars, latVars, injVars, whisperVars>>
    \/ \E key \in Keys :
         ReleaseKey(key) /\ UNCHANGED <<accVars, togVars, vadVars, pipeVars, energyVars, latVars, injVars, whisperVars>>
    \/ Tick(debounce_ms) /\ UNCHANGED <<accVars, vadVars, pipeVars, energyVars, mgrVars, latVars, injVars, whisperVars>>

SpecHotkey == InitHotkey /\ [][NextHotkey]_vars

\* every pipe variable but LatencyLogger._measurements
pipeRest == <<pc, utter, cb, hk_saw, running, listener, cap_recording, cap_stream, cap_lock,
              frame_no, loadVars, cap_raised, sttVars, lost_speech>>

InitTimer ==
    /\ TimerInit /\ InjectInit /\ WhisperInit /\ LoggerRest
    /\ AccRest /\ TogRest /\ VadInit /\ EnergyInit /\ MgrInit /\ model_ok = TRUE /\ PipeInit

NextTimer ==
    \/ TimerTick /\ UNCHANGED <<accVars, togVars, vadVars, pipeVars, energyVars, mgrVars, injVars, whisperVars>>
    \/ \E point \in Points :
         Mark(point) /\ UNCHANGED <<accVars, togVars, vadVars, pipeVars, energyVars, mgrVars, injVars, whisperVars>>
    \/ TimerReset /\ UNCHANGED <<accVars, togVars, vadVars, pipeVars, energyVars, mgrVars, injVars, whisperVars>>
    \/ \E text_length \in TextLengths :
         /\ TimerGetMeasurement(text_length)
         /\ UNCHANGED <<accVars, togVars, vadVars, pipeVars, energyVars, mgrVars, injVars, whisperVars>>

SpecTimer == InitTimer /\ [][NextTimer]_vars

InitLogger ==
    /\ TimerInit /\ InjectInit /\ WhisperInit /\ LoggerInit
    /\ AccRest /\ TogRest /\ VadInit /\ EnergyInit /\ MgrInit /\ model_ok = TRUE /\ PipeInit

NextLogger ==
    \/ \E measurement \in Totals :
         /\ LoggerLog(measurement)
         /\ UNCHANGED <<accVars, togVars, vadVars, pipeRest, energyVars, mgrVars, injVars, whisperVars>>
    \/ LoggerClear /\ UNCHANGED <<accVars, togVars, vadVars, pipeRest, energyVars, mgrVars, injVars, whisperVars>>
    \/ LoggerGetStatistics /\ UNCHANGED <<accVars, togVars, vadVars, pipeRest, energyVars, mgrVars, injVars, whisperVars>>
    \/ \E target_ms \in Totals :
         /\ LoggerCheckTarget(target_ms)
         /\ UNCHANGED <<accVars, togVars, vadVars, pipeRest, energyVars, mgrVars, injVars, whisperVars>>
    \/ \E count \in 0..MaxLogs :
         /\ LoggerGetRecent(count)
         /\ UNCHANGED <<accVars, togVars, vadVars, pipeRest, energyVars, mgrVars, injVars, whisperVars>>

SpecLogger == InitLogger /\ [][NextLogger]_vars

InitPercentiles ==
    /\ TimerInit /\ InjectInit /\ WhisperInit /\ LoggerAfterLogs
    /\ model_ok = TRUE /\ PipeInitRest /\ measurements = logged
    /\ AccRest /\ TogRest /\ VadInit /\ EnergyInit /\ MgrInit

NextPercentiles ==
    \/ LoggerGetStatistics /\ UNCHANGED <<accVars, togVars, vadVars, pipeRest, energyVars, mgrVars, injVars, whisperVars>>
    \/ LoggerClear /\ UNCHANGED <<accVars, togVars, vadVars, pipeRest, energyVars, mgrVars, injVars, whisperVars>>

SpecPercentiles == InitPercentiles /\ [][NextPercentiles]_vars

InitInject ==
    /\ InjectInit /\ WhisperInit /\ TimerInit /\ LoggerRest
    /\ AccRest /\ TogRest /\ VadInit /\ EnergyInit /\ MgrInit /\ model_ok = TRUE /\ PipeInit

NextInject ==
    \E text \in Texts : \E results \in [1..Len(text) -> SendInputResults] :
       /\ InjectCall(text, results)
       /\ UNCHANGED <<accVars, togVars, vadVars, pipeVars, energyVars, mgrVars, latVars, whisperVars>>

SpecInject == InitInject /\ [][NextInject]_vars

InitWhisper ==
    /\ WhisperInit /\ InjectInit /\ TimerInit /\ LoggerRest
    /\ AccRest /\ TogRest /\ VadInit /\ EnergyInit /\ MgrInit /\ model_ok = TRUE /\ PipeInit

NextWhisper ==
    \/ \E load_ok \in BOOLEAN :
          Preload(load_ok) /\ UNCHANGED <<accVars, togVars, vadVars, pipeVars, energyVars, mgrVars, latVars, injVars>>
    \/ \E audio_bytes \in AudioLengths, load_ok \in BOOLEAN, infer_ok \in BOOLEAN :
          SttTranscribe(audio_bytes, load_ok, infer_ok)
          /\ UNCHANGED <<accVars, togVars, vadVars, pipeVars, energyVars, mgrVars, latVars, injVars>>

SpecWhisper == InitWhisper /\ [][NextWhisper]_vars

Init ==
    /\ model_ok \in BOOLEAN
    /\ PipeInit /\ AccRest /\ TogRest /\ VadInit /\ EnergyInit /\ MgrInit /\ TimerInit /\ LoggerRest
    /\ InjectInit /\ WhisperInit

Next ==
    \/ CapDeliver
    \/ CapAdd
    \/ CapAddClear
    \/ CapOverflow
    \/ PipeTick
    \/ HkPress
    \/ HkToggleWrite
    \/ OnStartReset
    \/ OnStartCapture
    \/ \E t \in Stoppers : StopAcquire(t, "stop_acquire", "stop_close")
    \/ \E t \in Stoppers : StopClose(t, "stop_close", "flush")
    \/ \E t \in Stoppers : FlushRead(t)
    \/ \E t \in Stoppers : FlushClear(t)
    \/ \E t \in Threads : Transcribe(t)
    \/ \E t \in Threads : Inject(t)
    \/ \E t \in Threads : Log(t)
    \/ \E t \in Threads : CheckTarget(t)
    \/ CtlStop
    \/ CtlToggleStop
    \/ CtlHotkeyStop
    \/ StopAcquire("ctl", "fin_acquire", "fin_close")
    \/ StopClose("ctl", "fin_close", "stats")
    \/ CtlStatistics

Spec == Init /\ [][Next]_vars

(***************************************************************************)
(* Claims                                                                  *)
(***************************************************************************)
AddedSpeech == acc_call.op = "add" /\ acc_call.is_speech

AddedSilence == acc_call.op = "add" /\ ~acc_call.is_speech

\* C1: whatever add/flush/clear calls were made, the bytes a flush or an emitting
\* add returns are exactly the speech frames passed since the buffer was last
\* emptied, in order; until then the buffer holds exactly those frames (none
\* lost, duplicated or reordered, no silence frame among them).
C1_ReturnsSpeechFramesInOrder ==
    /\ acc_call.ret.some => acc_call.ret.val = since
    /\ ~Emptied => buffer = since

\* C1 witness: a flush returned an utterance made of more than one speech frame.
C1_Witness ==
    /\ acc_call.op = "flush"
    /\ acc_call.ret.some
    /\ Len(acc_call.ret.val) > MaxFrameLen

\* C8 as stated: once the continuous speech fed reaches max_bytes, add() returns
\* an utterance of exactly max_bytes bytes, whatever the frame sizes.
C8_Original ==
    (AddedSpeech /\ Len(since) >= max_bytes) =>
        (acc_call.ret.some /\ Len(acc_call.ret.val) = max_bytes)

\* C8 amended: add() force-flushes exactly at the speech frame with which the
\* bytes fed since the last emptying reach max_bytes; the utterance is everything
\* fed, so its length is at least max_bytes and less than max_bytes plus the
\* length of the last frame (exactly max_bytes when the frames add up to it).
C8_ForceFlushAtCap ==
    AddedSpeech =>
        IF Len(since) >= max_bytes
        THEN /\ acc_call.ret.some
             /\ Len(acc_call.ret.val) = Len(since)
             /\ Len(acc_call.ret.val) >= max_bytes
             /\ Len(acc_call.ret.val) < max_bytes + Len(acc_call.chunk)
        ELSE ~acc_call.ret.some

\* C8 witness: a forced flush of several frames that overshoots max_bytes.
C8_Witness ==
    /\ AddedSpeech
    /\ acc_call.ret.some
    /\ Len(acc_call.pre_buffer) > 0
    /\ Len(acc_call.ret.val) > max_bytes

\* C9: a silence frame added while accumulating a non-empty buffer returns the
\* whole buffer without that frame and leaves the buffer empty and the flag
\* false; the silence frame added next returns nothing.
C9_SilenceEmitsUtterance ==
    /\ (AddedSilence /\ acc_call.pre_flag /\ Len(acc_call.pre_buffer) > 0) =>
           /\ acc_call.ret = Some(acc_call.pre_buffer)
           /\ buffer = <<>>
           /\ ~is_accumulating
    /\ (AddedSilence /\ prev_emit) => ~acc_call.ret.some

\* C9 witness: the silence frame right after one that emitted.
C9_Witness ==
    /\ AddedSilence
    /\ prev_emit
    /\ Len(acc_call.chunk) > 0

\* C10: a silence frame added while not accumulating, and a flush of an empty
\* buffer, return nothing and change neither the buffer nor the flag.
C10_NoSpuriousUtterance ==
    /\ (AddedSilence /\ ~acc_call.pre_flag) =>
           /\ ~acc_call.ret.some
           /\ buffer = acc_call.pre_buffer
           /\ is_accumulating = acc_call.pre_flag
    /\ (acc_call.op = "flush" /\ acc_call.pre_buffer = <<>>) =>
           /\ ~acc_call.ret.some
           /\ buffer = acc_call.pre_buffer
           /\ is_accumulating = acc_call.pre_flag

\* C10 witness: a flush of an empty buffer after earlier utterances were emitted,
\* with the flag still set by an empty speech frame.
C10_Witness ==
    /\ acc_call.op = "flush"
    /\ acc_call.pre_buffer = <<>>
    /\ acc_call.pre_flag

ToggledWithinWindow ==
    /\ tog_call.op = "toggle"
    /\ tog_call.pre_accept.at >= 0
    /\ tog_call.at - tog_call.pre_accept.at < debounce_ms

StartFailedInToggle ==
    /\ tog_call.op = "toggle"
    /\ tog_call.accepted
    /\ ~tog_call.pre_rec
    /\ tog_call.raised

\* C4: when on_start raises in a toggle() that would start recording, the state
\* is rolled back: is_recording is false after the call, toggle() returns false
\* and the exception does not reach the caller.
C4_FailedStartRolledBack ==
    StartFailedInToggle =>
        /\ ~is_recording
        /\ tog_call.ret = FALSE
        /\ ~tog_call.propagated
        /\ tog_call.fired = <<"on_start">>

\* C4 witness: an accepted toggle() from not recording whose on_start raised.
C4_Witness == StartFailedInToggle /\ tog_call.pre_accept.at >= 0

\* windows i-4..i of h were all classified as speech
Run5(h, i) == i >= 5 /\ \A j \in (i - 4)..i : h[j]

\* a run of 5 consecutive speech windows has occurred among the first n windows of h
HadRun5(h, n) == \E i \in 5..n : Run5(h, i)

\* the window of the history that decision i of the last call belongs to
WindowOf(i) == Len(vad_hist) - Len(vad_call.results) + i

\* C3: from Silence, with min_speech_duration_ms = 150 and 32 ms windows, every
\* decision made before a run of 5 consecutive speech-classified windows has
\* occurred says not speech (4 in a row never flip the state, a silence window
\* restarts the run), the decision at the 5th window of a run says speech, and
\* is_speech() answers false until such a run has occurred.
C3_HysteresisFiveWindows ==
    /\ vad_state = "speech" => HadRun5(vad_hist, Len(vad_hist))
    /\ \A i \in 1..Len(vad_call.results) :
         /\ ~HadRun5(vad_hist, WindowOf(i)) => ~vad_call.results[i].is_speech
         /\ Run5(vad_hist, WindowOf(i)) => vad_call.results[i].is_speech
    /\ (vad_call.op = "is_speech" /\ ~HadRun5(vad_hist, Len(vad_hist))) => ~vad_call.ret

\* C3 witness: is_speech() first answers true at the 5th window of a run, after
\* an earlier run was cut short by a silence window.
C3_Witness ==
    /\ vad_call.op = "is_speech"
    /\ vad_call.ret
    /\ Run5(vad_hist, Len(vad_hist))
    /\ ~HadRun5(vad_hist, Len(vad_hist) - 1)
    /\ \E j \in 1..(Len(vad_hist) - 5) : vad_hist[j] /\ ~vad_hist[j + 1]


(***************************************************************************)
(* The orchestrator's concurrency contract                                 *)
(***************************************************************************)
\* the capture callback has issued Accumulator.add and add has not returned
InAdd == pc["cap"] \in {"add", "add_clear"}

\* context t is inside Accumulator.flush, between bytes(self._buffer) and clear()
InFlush(t) == pc[t] = "flush_clear"

\* context t is executing _process_audio
InProcessAudio(t) == pc[t] \in {"stt", "inject", "log", "check"}

\* context t is inside LatencyLogger.log or LatencyLogger.check_target
InLoggerCall(t) == pc[t] \in {"log", "check"}

\* C5: stop ordering.  A flush that _on_recording_stop runs after capture.stop()
\* has returned never overlaps an Accumulator.add of the capture callback.
C5_NoAddOverlapsFlush == \A t \in Stoppers : ~(InFlush(t) /\ InAdd)

\* C6: single in-flight utterance.  At most one context is executing
\* _process_audio at any time.
C6_SingleInFlight == Cardinality({t \in Threads : InProcessAudio(t)}) <= 1

\* C7: logger mutual exclusion.  No append to or read of the latency history
\* runs in one context while another context appends to it or reads it.
C7_LoggerExclusive ==
    /\ Cardinality({t \in Threads : InLoggerCall(t)}) <= 1
    /\ pc["ctl"] = "stats" => \A t \in Threads : ~InLoggerCall(t)


(***************************************************************************)
(* RecordingToggle: toggle() twice, start() and stop()                     *)
(***************************************************************************)
\* what a callback that is set fires
FiredIf(is_set, name) == IF is_set THEN <<name>> ELSE <<>>

\* the first call since construction was toggle() and it raised nothing
FirstToggle == tog_call.seq = 1 /\ tog_call.op = "toggle" /\ ~tog_call.raised

\* the second call since construction is toggle(), after a first toggle() that
\* returned true
SecondToggle ==
    /\ tog_call.seq = 2
    /\ tog_call.op = "toggle"
    /\ tog_call.pre_op = "toggle"
    /\ tog_call.pre_accept.ret
    /\ ~tog_call.raised

\* the second toggle() was called with the clock where the first left it
DirectlyAfter == tog_call.at = tog_call.pre_accept.at

\* the second toggle() stopped the recording
SecondStopped ==
    /\ tog_call.ret = FALSE
    /\ is_recording = FALSE
    /\ tog_call.fired = FiredIf(on_stop_set, "on_stop")

C12_StartStopIdempotentNoDebounce ==
    /\ tog_call.op = "start" =>
         /\ is_recording
         /\ last_toggle_time = tog_call.pre_last
         /\ tog_call.fired = (IF tog_call.pre_rec THEN <<>>
                              ELSE FiredIf(on_start_set, "on_start"))
    /\ tog_call.op = "stop" =>
         /\ ~is_recording
         /\ last_toggle_time = tog_call.pre_last
         /\ tog_call.fired = (IF tog_call.pre_rec THEN FiredIf(on_stop_set, "on_stop")
                              ELSE <<>>)

\* start() took effect inside the debounce window of an accepted toggle()
C12_Witness ==
    /\ tog_call.op = "start"
    /\ ~tog_call.pre_rec
    /\ on_start_set
    /\ tog_call.pre_accept.at >= 0
    /\ tog_call.at - tog_call.pre_last < debounce_ms


(***************************************************************************)
(* The orchestrator's error handling                                       *)
(***************************************************************************)
\* C13: VAD fallback.  When the neural model fails to load, the frames the device
\* produces are classified by the energy variant, which the agent has fallen back
\* to, and the failure never leaves the capture-delivery callback.
C13_LoadFailureRecovered ==
    ~model_ok /\ frame_no > 0 => vad_variant = "energy" /\ ~cap_raised


(***************************************************************************)
(* The two VAD variants                                                    *)
(***************************************************************************)
\* the two variants are in the same debounced state and gave the same answer
SameDecisions == e_state = vad_state /\ e_call.ret = vad_call.ret

\* what SileroVAD.process returned, with its shape
NeuralReturned == ListOf(vad_call.results)

\* C14: variant substitutability.  Driven by the same 512-sample frames with the
\* same classification and the same floors, the neural and the energy variant
\* are in the same debounced state, give the same is_speech answers, and return
\* results of the same shape (a sequence of decisions) from process().
C14_VariantsSubstitutable ==
    /\ SameDecisions
    /\ vad_call.op = "process" =>
         /\ e_call.returned.shape = NeuralReturned.shape
         /\ Len(e_call.returned.decisions) = Len(NeuralReturned.decisions)


(***************************************************************************)
(* The hotkey context                                                      *)
(***************************************************************************)
\* the ids whose callbacks the last _on_press called, in order
CalledIds == [i \in 1..Len(press_call.calls) |-> press_call.calls[i].id]

\* C15: hotkey-context containment.  An exception raised by a hotkey callback, or
\* by on_start / on_stop inside toggle(), leaves neither _on_press nor toggle();
\* the rest of the matching callbacks are still called, the listener stays alive,
\* and after such a failure later key presses are dispatched as before.
C15_HotkeyFailuresContained ==
    /\ ~press_call.propagated
    /\ tog_call.op = "toggle" => ~tog_call.propagated
    /\ mgr_running
    /\ CalledIds = press_call.expected

\* a key press dispatched to a callback after an earlier callback had raised
C15_Witness ==
    /\ press_call.after_failure
    /\ press_call.calls # <<>>
    /\ \E i \in 1..Len(press_call.calls) : press_call.calls[i].raised


\* a completed utterance goes to transcription, and transcription ends in
\* injection or in the return of _process_audio to its caller, whatever it did
HandedAndContained ==
    \A t \in Threads :
      /\ pc[t] \in {"add_clear", "flush_clear"} /\ utter[t] # <<>> /\ pc'[t] # pc[t]
           => pc'[t] = "stt" /\ utter'[t] = utter[t]
      /\ pc[t] = "stt" /\ pc'[t] # "stt"
           => pc'[t] \in {"inject", After(t)} /\ cap_raised' = cap_raised

\* C16: transcription failure is per-utterance.  An exception of the transcription
\* collaborator never leaves _process_audio (into the capture callback's caller or
\* into the hotkey context), and every utterance completed, also after such a
\* failure, is handed to transcription.
C16_TranscriptionFailureContained ==
    /\ [](stt_escaped = {})
    /\ [][HandedAndContained]_vars

\* with the control context still idle, an utterance is in transcription after an
\* earlier transcription raised
C16_Witness == stt_failed /\ running /\ \E t \in Threads : pc[t] = "stt"


\* C17: the capture-delivery context never blocks on long computation.  The
\* callback that receives a frame returns after the VAD decision and the
\* accumulator's add; it is never itself inside transcription, injection or the
\* latency bookkeeping that follows them.
C17_CallbackReturnsAfterBookkeeping == ~InProcessAudio("cap")

\* C18: backpressure without loss.  While an utterance is being transcribed and
\* injected, no speech frame of the open stream is dropped: each is passed to the
\* callback and appended to the accumulator.
C18_NoSpeechDroppedWhileTranscribing == ~lost_speech


(***************************************************************************)
(* Latency instrumentation                                                 *)
(***************************************************************************)
\* the two marks that bound each interval
BoundingMarks ==
    [speech_end_to_stt_start_ms |-> <<"speech_end", "stt_start">>,
     stt_duration_ms            |-> <<"stt_start", "stt_end">>,
     stt_end_to_injection_ms    |-> <<"stt_end", "injection_start">>,
     injection_duration_ms      |-> <<"injection_start", "injection_end">>,
     total_latency_ms           |-> <<"speech_end", "injection_end">>]

\* the difference of the interval's own two marks, 0 when one of them is absent
OwnDifference(marks, interval) ==
    LET from == BoundingMarks[interval][1]
        to   == BoundingMarks[interval][2]
    IN  IF from \in DOMAIN marks /\ to \in DOMAIN marks THEN marks[to] - marks[from] ELSE 0

\* SpeechEnd=0, SttStart=10, SttEnd=50, InjectionStart=55, InjectionEnd=70
ExampleMarks ==
    [speech_end |-> 0, stt_start |-> 10, stt_end |-> 50, injection_start |-> 55,
     injection_end |-> 70]

ExampleMeasured ==
    /\ GetMeasurement(ExampleMarks, 0).stt_duration_ms = 40
    /\ GetMeasurement(ExampleMarks, 0).total_latency_ms = 70

\* C19: get_measurement.  Whatever points are marked, each interval field of the
\* measurement is the difference of its own two bounding marks when both are
\* present and 0 otherwise, whichever other points are marked; the marks
\* 0, 10, 50, 55, 70 give stt_duration 40 and total_latency 70.
C19_IntervalsFromOwnMarks ==
    /\ ExampleMeasured
    /\ timer_call.op = "get_measurement" =>
         \A interval \in DOMAIN BoundingMarks :
            timer_call.ret[interval] = OwnDifference(timer_call.marks, interval)

\* the last n items of s
LastN(s, n) == SubSeq(s, Len(s) - n + 1, Len(s))

\* C20: the logger's ring buffer.  After k log() calls on a logger of capacity N
\* the history is the min(k, N) most recently logged measurements, in the order
\* they were logged, and never longer than N.
C20_HistoryIsMostRecent ==
    /\ Len(measurements) <= max_history
    /\ measurements = LastN(logged, Min(Len(logged), max_history))

\* a logger of capacity 2 after four calls, the first two of them evicted
C20_Witness ==
    /\ max_history = 2
    /\ Len(logged) = 4
    /\ logged[1] # logged[3]
    /\ measurements = <<logged[3], logged[4]>>


(***************************************************************************)
(* LatencyLogger: statistics, target check and recent measurements         *)
(***************************************************************************)
\* the measurements a logger of this capacity retains of those logged
Retained == LastN(logged, Min(Len(logged), max_history))

ItemsOf(xs) == {xs[i] : i \in 1..Len(xs)}

\* how many items of xs are below v, and how many are not above it
Below(xs, v) == Cardinality({i \in 1..Len(xs) : xs[i] < v})

UpTo(xs, v) == Cardinality({i \in 1..Len(xs) : xs[i] <= v})

\* v is the item of rank k (from 0) of xs in ascending order
HasRank(xs, v, k) == v \in ItemsOf(xs) /\ Below(xs, v) <= k /\ k < UpTo(xs, v)

\* q is the median of xs: the mean of the items of the two middle ranks
IsMedian(xs, q) ==
    \E lo \in ItemsOf(xs), hi \in ItemsOf(xs) :
       /\ HasRank(xs, lo, (Len(xs) - 1) \div 2)
       /\ HasRank(xs, hi, Len(xs) \div 2)
       /\ 2 * q.num = (lo + hi) * q.den

\* logging 100, 200, 300, 400, 500 gives count 5, mean 300, min 100, max 500
StatisticsExample ==
    LET stats == GetStatistics(<<100, 200, 300, 400, 500>>)
    IN  /\ stats.count = 5
        /\ stats.mean_ms = Frac(300, 1)
        /\ stats.min_ms = 100
        /\ stats.max_ms = 500

\* C21: get_statistics().  On an empty history every field is the default 0;
\* otherwise count, mean, median, min and max are those of exactly the measurements
\* the history retains: what was evicted or cleared does not contribute.  The
\* history 100, 200, 300, 400, 500 gives count 5, mean 300, min 100, max 500.
C21_StatisticsOverRetained ==
    /\ StatisticsExample
    /\ logger_call.op = "get_statistics" =>
         LET stats == logger_call.ret
         IN  IF Retained = <<>>
             THEN stats = LatencyStatistics
             ELSE /\ stats.count = Len(Retained)
                  /\ stats.mean_ms.num * Len(Retained) = SumOf(Retained) * stats.mean_ms.den
                  /\ IsMedian(Retained, stats.median_ms)
                  /\ HasRank(Retained, stats.min_ms, 0)
                  /\ HasRank(Retained, stats.max_ms, Len(Retained) - 1)

\* get_statistics() after the greatest measurement logged was evicted, the
\* retained ones being in descending order
C21_Witness ==
    /\ logger_call.op = "get_statistics"
    /\ Len(logged) > max_history
    /\ logged[1] > logger_call.ret.max_ms
    /\ Len(measurements) >= 2
    /\ measurements[1] > measurements[2]


\* false right after logging 600 against the target 500, true after then logging 400
CheckTargetExample ==
    /\ ~CheckTargetOf(<<600>>, 500)
    /\ CheckTargetOf(<<600, 400>>, 500)

\* C22: check_target(target_ms) is true on an empty history and otherwise true
\* exactly when the measurement logged last has a total latency of at most
\* target_ms, whatever the older entries are.
C22_TargetOfMostRecent ==
    /\ CheckTargetExample
    /\ logger_call.op = "check_target" =>
         logger_call.ret = (measurements = <<>> \/ logged[Len(logged)] <= logger_call.arg)

\* check_target is true although an older retained measurement exceeds the target
C22_Witness ==
    /\ logger_call.op = "check_target"
    /\ logger_call.ret
    /\ Len(measurements) >= 2
    /\ measurements[1] > logger_call.arg


\* the population standard deviation: the square root of the sum of the squared
\* deviations from the mean divided by their number
PopulationStddev(xs) ==
    LET n == Len(xs)
    IN  IF n = 0 THEN Sqrt(Frac(0, 1))
        ELSE Sqrt(Frac(n * SumOf(Squares(xs)) - SumOf(xs) * SumOf(xs), n * n))

\* C23: the stddev_ms of get_statistics() is the population standard deviation of
\* the retained total latencies (squared deviations divided by count), and is 0
\* when count is 1.
C23_StddevIsPopulation ==
    logger_call.op = "get_statistics" =>
       logger_call.ret.stddev_ms = PopulationStddev(Retained)


\* C24: percentiles.  p95_ms is the item at index floor(count * 0.95) of the
\* retained latencies in ascending order when count >= 20 and their maximum
\* otherwise; p99_ms is the item at index floor(count * 0.99) when count >= 100
\* and the maximum otherwise.
C24_PercentilesByIndex ==
    logger_call.op = "get_statistics" /\ Retained # <<>> =>
       LET n == Len(Retained)
           stats == logger_call.ret
       IN  /\ HasRank(Retained, stats.p95_ms, IF n >= 20 THEN (95 * n) \div 100 ELSE n - 1)
           /\ HasRank(Retained, stats.p99_ms, IF n >= 100 THEN (99 * n) \div 100 ELSE n - 1)

\* get_statistics() on a history of at least 100 different latencies: p95, p99
\* and the maximum are three different values
C24_Witness ==
    /\ logger_call.op = "get_statistics"
    /\ logger_call.ret.count >= 100
    /\ logger_call.ret.p95_ms < logger_call.ret.p99_ms
    /\ logger_call.ret.p99_ms < logger_call.ret.max_ms


(***************************************************************************)
(* The state machine the two VAD variants share                            *)
(***************************************************************************)
\* the length of the run of windows classified b that ends the history
RECURSIVE TrailingRun(_, _)
TrailingRun(hist, b) ==
    IF hist = <<>> \/ hist[Len(hist)] # b
    THEN 0
    ELSE 1 + TrailingRun(SubSeq(hist, 1, Len(hist) - 1), b)

\* run windows of CHUNK_SAMPLES samples last at least floor_ms
RunLasts(run, floor_ms) == run * CHUNK_SAMPLES * 1000 >= floor_ms * SAMPLE_RATE

\* this step is one window processed by both variants
WindowProcessed == Len(vad_hist') = Len(vad_hist) + 1

\* the debounced state after the window, given the state before it and the runs
DebouncedAfter(state_before, hist_after) ==
    IF state_before = "silence"
    THEN IF RunLasts(TrailingRun(hist_after, TRUE), min_speech_duration_ms)
         THEN "speech" ELSE "silence"
    ELSE IF RunLasts(TrailingRun(hist_after, FALSE), min_silence_duration_ms)
         THEN "silence" ELSE "speech"

\* C25: the state machine of both variants.  Each window adds one to the run of
\* its own class and zeroes the other run; the debounced state goes from silence
\* to speech at the first window at which the speech run lasts
\* min_speech_duration_ms, from speech to silence at the first window at which the
\* silence run lasts min_silence_duration_ms, and at no other window: a shorter
\* run that a window of the other class interrupts changes nothing.
C25_SharedStateMachine ==
    [][WindowProcessed =>
         /\ speech_frames' = TrailingRun(vad_hist', TRUE)
         /\ silence_frames' = TrailingRun(vad_hist', FALSE)
         /\ speech_samples' = CHUNK_SAMPLES * TrailingRun(vad_hist', TRUE)
         /\ silence_samples' = CHUNK_SAMPLES * TrailingRun(vad_hist', FALSE)
         /\ vad_state' = DebouncedAfter(vad_state, vad_hist')
         /\ e_state' = DebouncedAfter(e_state, vad_hist')]_vars

\* five speech windows, then two single silence windows with a speech window
\* between them: both variants went to speech at the fifth window and stay there
C25_Witness ==
    /\ vad_hist = <<TRUE, TRUE, TRUE, TRUE, TRUE, FALSE, TRUE, FALSE>>
    /\ vad_state = "speech"
    /\ e_state = "speech"
    /\ silence_frames = 1
    /\ silence_samples = CHUNK_SAMPLES


\* the class of the last chunk the energy variant was given, from its confidence
LastChunkWasSpeech == e_call.returned.decisions[1].confidence >= EnergyConfidence(threshold_db)

\* C26: is_speech(frame) returns the speech flag of the last decision made for the
\* frame, or the debounced state when the frame gave no decision; either way the
\* value is whether the debounced state is speech after the call, not the class
\* of the window.
C26_IsSpeechIsDebouncedState ==
    /\ vad_call.op = "is_speech" =>
         /\ vad_call.ret = (vad_state = "speech")
         /\ vad_call.results # <<>> =>
              vad_call.ret = vad_call.results[Len(vad_call.results)].is_speech
    /\ e_call.op = "is_speech" =>
         /\ e_call.ret = (e_state = "speech")
         /\ e_call.ret = e_call.returned.decisions[1].is_speech

\* is_speech() answered false for a frame whose last window the neural variant
\* scored as speech and whose level the energy variant took for speech
C26_Witness ==
    /\ vad_call.op = "is_speech"
    /\ vad_call.results # <<>>
    /\ vad_hist[Len(vad_hist)]
    /\ ~vad_call.ret
    /\ e_call.op = "is_speech"
    /\ LastChunkWasSpeech
    /\ ~e_call.ret

\* is_speech() answered true for a frame that completed no window
C26_NoDecision ==
    vad_call.op = "is_speech" /\ vad_call.results = <<>> /\ vad_call.ret


(***************************************************************************)
(* TextInjector: best effort per character                                 *)
(***************************************************************************)
\* the characters of the text that SendInput did not take, in order
RECURSIVE NotSent(_, _)
NotSent(text, results) ==
    IF text = <<>> THEN <<>>
    ELSE (IF Head(results) = 2 THEN <<>> ELSE <<Head(text)>>)
            \o NotSent(Tail(text), Tail(results))

\* C27: injection is best-effort per character.  inject(text) passes every
\* character of the text to SendInput, in order, also after an earlier one failed;
\* it raises nothing for a character that failed; characters_sent plus the number
\* of failed characters is the length of the text, the failed characters are those
\* not sent, and success is true exactly when there is none.
C27_BestEffortPerCharacter ==
    inject_call.op = "inject" =>
       /\ inject_call.attempted = inject_call.text
       /\ ~inject_call.raised
       /\ inject_call.ret.characters_sent + Len(inject_call.ret.failed_characters)
             = Len(inject_call.text)
       /\ inject_call.ret.failed_characters = NotSent(inject_call.text, inject_call.results)
       /\ inject_call.ret.success = (inject_call.ret.failed_characters = <<>>)

\* the first of three characters failed and the third was sent
C27_Witness ==
    /\ inject_call.op = "inject"
    /\ Len(inject_call.text) = 3
    /\ inject_call.results[1] = 0
    /\ inject_call.results[2] = 1
    /\ inject_call.results[3] = 2
    /\ inject_call.ret.characters_sent = 1
    /\ ~inject_call.ret.success


(***************************************************************************)
(* LatencyLogger.get_recent                                                *)
(***************************************************************************)
\* C28: get_recent(k), k >= 0, on a history of n retained measurements returns
\* the min(k, n) measurements logged last, in the order they were logged.
C28_RecentIsLastK ==
    logger_call.op = "get_recent" =>
       logger_call.ret = LastN(Retained, Min(logger_call.arg, Len(Retained)))

\* C29: after reset() on either variant, called in any state, the state is
\* Silence, both run counters are zero and the neural variant's remainder
\* buffer is empty, so the detector holds exactly what a newly constructed one
\* holds and answers every later frame as that one would; the thresholds and
\* floors are the definitions threshold, threshold_db and the minimum runs,
\* which no call assigns.
C29_ResetIsFresh ==
    /\ vad_call.op = "reset" =>
         /\ vad_state = "silence" /\ speech_frames = 0 /\ silence_frames = 0
         /\ vad_buffer = 0
         /\ Detector(VadNow, vad_buffer) = FreshDetector
    /\ e_call.op = "reset" =>
         /\ e_state = "silence" /\ speech_samples = 0 /\ silence_samples = 0
         /\ EnergyNow = FreshEnergy

\* reset() called while in Speech with samples buffered and a run counted
C29_Witness ==
    /\ vad_call.op = "reset" /\ e_call.op = "reset"
    /\ vad_call.pre.vad.state = "speech" /\ vad_call.pre.buffer > 0
    /\ vad_call.pre.vad.silence_frames > 0
    /\ e_call.pre.state = "speech" /\ e_call.pre.silence_samples > 0
    /\ vad_state = "silence" /\ vad_buffer = 0

\* C30: a failed start never leaves the controller believing it is recording,
\* on the programmatic path as well: when on_start raises during start(),
\* is_recording is false once the call is over.
C30_FailedStartNotRecording ==
    (tog_call.op = "start" /\ tog_call.raised) => ~is_recording

\* C31: a toggle() whose on_start fails is treated as not having happened: both
\* is_recording and the time of the last toggle are after the call what they
\* were before it, so a toggle() issued right afterwards is not rejected by the
\* debounce window on account of the failed attempt.
C31_FailedToggleLeavesNoTrace ==
    StartFailedInToggle =>
        /\ is_recording = tog_call.pre_rec
        /\ last_toggle_time = tog_call.pre_last

\* the marks _process_audio has taken on its own LatencyTimer when it is at label l,
\* in the order of the statements that take them
MarksTaken(l) ==
    IF l = "stt" THEN <<"speech_end", "stt_start">>
    ELSE IF l = "inject" THEN <<"speech_end", "stt_start", "stt_end", "injection_start">>
    ELSE IF l \in {"log", "check"}
    THEN <<"speech_end", "stt_start", "stt_end", "injection_start", "injection_end">>
    ELSE <<>>

\* C32: for every utterance that is transcribed and injected the marks are taken
\* in the order SpeechEnd, SttStart, SttEnd, InjectionStart, InjectionEnd; the
\* measurement is appended to the logger once all five are taken, and
\* check_target is then evaluated on it: when a context is about to call
\* check_target, the logger's most recent measurement is the one of the
\* utterance that context has just logged.
C32_MarksThenLogThenCheck ==
    \A t \in Threads :
       /\ At(t, "log") =>
            MarksTaken(pc[t]) =
               <<"speech_end", "stt_start", "stt_end", "injection_start", "injection_end">>
       /\ At(t, "check") =>
            /\ measurements # <<>>
            /\ measurements[Len(measurements)] = utter[t]

\* C33: neural VAD windowing.  Over any sequence of process() calls (is_speech()
\* calls process()) with frames of any of the lengths, the remainder buffer
\* holds fewer than 512 samples after every call; a call returns no decision
\* exactly when the remainder plus the new samples is below 512; the decisions
\* produced so far number floor(samples received / 512); and the windows scored
\* are the consecutive runs of 512 samples in arrival order, so that every
\* sample is scored once, in order, and the buffer holds exactly the rest.
C33_WindowsCoverSamplesInOrder ==
    /\ vad_buffer < CHUNK_SAMPLES
    /\ vad_buffer = vad_call.held.to - vad_call.held.from
    /\ Len(vad_call.windows) = Len(vad_call.results)
    /\ vad_call.op \in {"process", "is_speech"} =>
          (vad_call.results = <<>> <=> vad_call.avail < CHUNK_SAMPLES)
    /\ Len(vad_hist) = vad_call.held.to \div CHUNK_SAMPLES
    /\ vad_call.held.from = CHUNK_SAMPLES * Len(vad_hist)
    /\ \A i \in 1..Len(vad_call.windows) :
          vad_call.windows[i] =
             CHUNK_SAMPLES * (Len(vad_hist) - Len(vad_call.windows) + i - 1)

\* a process() that found samples buffered, scored two windows and left a rest,
\* after an earlier call had scored windows
C33_Witness ==
    /\ vad_call.op = "process"
    /\ Len(vad_call.windows) = 2
    /\ vad_call.windows[1] > 0
    /\ vad_call.avail > 2 * CHUNK_SAMPLES
    /\ vad_buffer > 0

\* context t has been called into on_stop (_on_recording_stop) and has not
\* returned from it: capture.stop(), the flush, _process_audio
InOnStop(t) ==
    pc[t] \in {"stop_acquire", "stop_close", "flush", "flush_clear",
               "stt", "inject", "log", "check"}

\* C34: in every interleaving of toggle() calls of the hotkey context with the
\* stop() of the control context on the same RecordingToggle, on_start and
\* on_stop calls alternate, beginning with on_start, so on_stop runs at most
\* once per recording session.  Only the hotkey context calls on_start, and not
\* while it is inside on_stop: two contexts inside on_stop at once are two
\* on_stop calls with no on_start between them.
C34_CallbacksAlternate == ~(InOnStop("hk") /\ InOnStop("ctl"))

\* C35: the debounce window is anchored at the last accepted toggle().  A
\* rejected toggle() leaves the stored time as it was, which is the time of the
\* last accepted toggle(); so a toggle() that comes debounce_ms or more after
\* the last accepted one is accepted, however many rejected calls came in
\* between, and the first toggle() on a new controller is accepted.
C35_WindowAnchoredAtLastAccepted ==
    /\ last_accept.at >= 0 => last_toggle_time = last_accept.at
    /\ tog_call.op = "toggle" =>
         /\ ~tog_call.accepted => last_toggle_time = tog_call.pre_last
         /\ tog_call.pre_accept.at < 0 => tog_call.accepted
         /\ tog_call.at - tog_call.pre_accept.at >= debounce_ms => tog_call.accepted

\* a toggle() accepted at least debounce_ms after the last accepted one, right
\* after a toggle() that was rejected
C35_Witness ==
    /\ tog_call.op = "toggle"
    /\ tog_call.accepted
    /\ tog_call.pre_rejected
    /\ tog_call.pre_accept.at >= 0
    /\ tog_call.at - tog_call.pre_accept.at >= debounce_ms

\* C36: bounded buffer.  With a maximum byte length max_bytes >= 1, the buffer
\* holds strictly fewer than max_bytes bytes after every add, flush and clear,
\* and an utterance returned by add is shorter than max_bytes plus the length
\* of the frame just added.
C36_BufferBelowCap ==
    /\ max_bytes >= 1
    /\ Len(buffer) < max_bytes
    /\ (acc_call.op = "add" /\ acc_call.ret.some) =>
          Len(acc_call.ret.val) < max_bytes + Len(acc_call.chunk)

\* a speech frame added to a buffer one byte below max_bytes: the utterance
\* returned is as long as the bound allows, max_bytes + len(frame) - 1
C36_Witness ==
    /\ AddedSpeech
    /\ acc_call.ret.some
    /\ Len(acc_call.pre_buffer) = max_bytes - 1
    /\ Len(acc_call.chunk) > 1
    /\ Len(acc_call.ret.val) = max_bytes + Len(acc_call.chunk) - 1
    /\ buffer = <<>>

\* C37: flag/buffer consistency.  After any sequence of add, flush and clear the
\* accumulating flag is true exactly when the buffer is non-empty, and every
\* utterance returned by add or flush is non-empty.
C37_FlagIffBufferNonEmpty ==
    /\ is_accumulating <=> buffer # <<>>
    /\ acc_call.ret.some => acc_call.ret.val # <<>>

\* C38: the transcription state does not get stuck.  state is PROCESSING only
\* while a transcribe() call is executing: once transcribe() has returned or
\* raised, the state is IDLE or COMPLETED.
C38_StateNotStuckProcessing ==
    stt_call.op = "transcribe" => stt_state \in {"idle", "completed"}

\* an integer is not above, a quotient is not above an integer
AtMostFrac(k, q) == k * q.den <= q.num

FracAtMost(q, k) == q.num <= k * q.den

\* C39: the statistics are consistent.  For every non-empty history of n
\* measurements get_statistics() reads the sorted array within its bounds and
\* returns count = n, min <= median <= max, min <= mean <= max and
\* min <= p95 <= p99 <= max.
C39_StatisticsConsistent ==
    (logger_call.op = "get_statistics" /\ Retained # <<>>) =>
        LET st == logger_call.ret
            n  == Len(Retained)
        IN  /\ st.count = n
            /\ n >= 20 => IntOfProduct(n, 95) \in 0..(n - 1)
            /\ n >= 100 => IntOfProduct(n, 99) \in 0..(n - 1)
            /\ AtMostFrac(st.min_ms, st.median_ms) /\ FracAtMost(st.median_ms, st.max_ms)
            /\ AtMostFrac(st.min_ms, st.mean_ms) /\ FracAtMost(st.mean_ms, st.max_ms)
            /\ st.min_ms <= st.p95_ms
            /\ st.p95_ms <= st.p99_ms
            /\ st.p99_ms <= st.max_ms

\* statistics of a history long enough for the 95th percentile to be indexed and
\* too short for the 99th, kept in an order that is not the sorted one, with a
\* mean and a median that are not whole numbers
C39_Witness ==
    /\ logger_call.op = "get_statistics"
    /\ Len(Retained) >= 20 /\ Len(Retained) < 100
    /\ Retained # Sorted(Retained)
    /\ logger_call.ret.min_ms < logger_call.ret.p95_ms
    /\ logger_call.ret.p95_ms < logger_call.ret.p99_ms
    /\ logger_call.ret.p99_ms = logger_call.ret.max_ms
    /\ logger_call.ret.mean_ms.den > 1
    /\ logger_call.ret.median_ms.den > 1

\* the capture callback is handling a frame: between the delivery of the frame and
\* the return of Accumulator.add or of _process_audio
FrameInFlight == ~At("cap", "idle")

\* C40: session isolation.  When a recording session starts, the VAD is reset and
\* the accumulator cleared before capture delivers the first frame of that
\* session: once _on_recording_start has done both and is about to call
\* capture.start(), the detector and the accumulator are as constructed and no
\* frame delivered earlier is still on its way into them, so that no bytes, VAD
\* state or run count of an earlier session get into an utterance of the new one.
C40_SessionStartsClean ==
    At("hk", "start_cap") =>
        /\ buffer = <<>> /\ ~is_accumulating
        /\ Detector(VadNow, vad_buffer) = FreshDetector
        /\ ~FrameInFlight

====
